---- MODULE Spec2Model ----
(***************************************************************************)
(* A model of the kryoptic PKCS#11 software token kernel:                  *)
(*   - the operation state machines of HMACOperation (hmac.rs) and         *)
(*     RsaPKCSOperation (fips/rsa.rs);                                     *)
(*   - Object, set_attr, fill_template and create (object.rs);             *)
(*   - JsonStorage (storage/json.rs);                                      *)
(*   - the octets HMACOperation computes and compares (hmac.rs).           *)
(* Return codes are the CKR_* names as strings.  The external crypto       *)
(* provider is modelled by the outcome of its calls: every operator that   *)
(* calls the provider takes the set pf of provider steps that fail.        *)
(***************************************************************************)
EXTENDS Integers, Sequences, FiniteSets, TLC

VARIABLES
    op,     \* the operation object held by the session, or NoOp
    last,   \* the last call made on it: name, arguments, state before, result
    obj,    \* the Object at hand, or NoObj
    olast,  \* the last call made on it: name, arguments, attributes before, result
    cache,  \* JsonStorage.cache: uid -> Object
    fname,  \* JsonStorage.filename
    file,   \* the token file on disk
    slast,  \* the last call made on the storage: name, arguments, result
    hm,     \* an HMACOperation with the octets it holds, or NoHmac
    hlast,  \* the last call made on it, its key and the data it has accepted
    ec,     \* the last call on the EC-Montgomery factory or mechanism, its result
    mechs,  \* the Mechanisms registry and the last call made on it
    imp,    \* the last RSA key import: the key, the buffers it left, its result
    rng,    \* the token's RNG with its DRBG, and the last call made on it
    lib,    \* the library: initialized or not, its environment, the last call
    hs,     \* a hash-state wrapper, the native states made for it, the last call
    tpls    \* the shared object templates, the threads that reach for them

opvars == <<op, last>>
objvars == <<obj, olast>>
stvars == <<cache, fname, file, slast>>
hmvars == <<hm, hlast>>
libvars == <<rng, lib>>
auxvars == <<hs, tpls>>
extvars == <<ec, mechs, imp, rng, lib, auxvars>>
corevars == <<op, last, obj, olast, cache, fname, file, slast, hm, hlast, auxvars>>
vars == <<op, last, obj, olast, cache, fname, file, slast, hm, hlast,
          ec, mechs, imp, rng, lib, hs, tpls>>

(***************************************************************************)
(* Bounds of the model.                                                    *)
(***************************************************************************)
\* data lengths 0..MaxInput+1 and moduli of PKCS1Overhead+1..PKCS1Overhead+MaxInput bytes
MaxInput == 2
\* HMAC output lengths 1..MaxOutputLen
MaxOutputLen == 2
\* fill_template is called with templates of 0..MaxTemplateLen entries
MaxTemplateLen == 2
\* create is called with templates of 0..MaxCreateLen entries
MaxCreateLen == 4
\* an HMAC call is given 0..MaxChunk octets of data, and an operation one
\* octet more than that in all
MaxChunk == 1
\* the longest template of ECMontgomeryPubFactory::create
MaxEcCreateLen == 4
\* the longest template of generate_keypair
MaxEcGenLen == 2
\* the objects given to JsonObject::from_object have 0..MaxJoLen attributes
MaxJoLen == 2
\* generate_random is given buffers of 0..MaxRandom octets
MaxRandom == 4
\* the number of generate calls the DRBG answers before it asks for a
\* reseed, cut down to the size of the model
ReseedInterval == 2
\* a hash-state wrapper is followed until MaxNative native states were made
MaxNative == 4
\* the number of threads that call create at the same time
NumThreads == 2

(***************************************************************************)
(* Program constants.                                                      *)
(***************************************************************************)
\* modulus.len() - 11: the PKCS#1 v1.5 padding overhead
PKCS1Overhead == 11

NoOp == [impl |-> "none"]
\* no call made yet
NoInput == [modlen |-> 0, info |-> [ulMinKeySize |-> 0, ulMaxKeySize |-> 0],
            sigok |-> FALSE, pf |-> {}]
NoCall == [call |-> "none", pre |-> NoOp, rv |-> "CKR_OK", wrote |-> FALSE, len |-> 0,
           nullbuf |-> FALSE, buflen |-> 0, datalen |-> 0, inp |-> NoInput]

\* no file on disk, no storage
NoFile == [exists |-> FALSE, ok |-> FALSE, objects |-> <<>>]
NoStCall == [call |-> "none"]
\* the parts of the state a specification does not use
OpUnused == op = NoOp /\ last = NoCall
StUnused == cache = <<>> /\ fname = "" /\ file = NoFile /\ slast = NoStCall

\* no HMACOperation at hand
NoHmac == [outputlen |-> 0, state |-> <<>>, ipad |-> <<>>, opad |-> <<>>,
           inner |-> <<>>, finalized |-> TRUE, in_use |-> TRUE]
\* left: what the vectors of a dropped operation hold
NoLeft == [state |-> <<>>, ipad |-> <<>>, opad |-> <<>>, key |-> <<>>]
NoHmCall == [call |-> "none", kind |-> "none", mech |-> "none", paramlen |-> 0,
             genlen |-> 0, key |-> <<>>, data |-> <<>>, sig |-> <<>>,
             out |-> <<>>, rv |-> "none", left |-> NoLeft]
HmUnused == hm = NoHmac /\ hlast = NoHmCall

\* no call made yet on the key factories, the registry, the key import
NoEc == [call |-> "none"]
NoMech == [call |-> "none"]
NoImp == [call |-> "none"]
EcUnused == ec = NoEc
MechUnused == mechs = NoMech
ImpUnused == imp = NoImp

\* no RNG, and the library as it is loaded: not initialized, KRYOPTIC_CONF
\* not set, no token file
NoDrbg == [initialized |-> FALSE, reseed_counter |-> 0]
NoRng == [some |-> FALSE, alg |-> "", drbg |-> NoDrbg, call |-> "none",
          rv |-> "none", pre |-> NoDrbg, buffer |-> <<>>]
NoLib == [initialized |-> FALSE, env |-> FALSE, finalized |-> FALSE, call |-> "none",
          args |-> "none", seed |-> "none", rv |-> "none"]
LibUnused == rng = NoRng /\ lib = NoLib
\* no hash-state wrapper, and the shared templates not reached for yet
Null == 0
NoHs == [some |-> FALSE, kind |-> "none", s |-> Null, made |-> 0, live |-> {},
         freed |-> <<>>, call |-> "none", ret |-> Null, before |-> Null]
\* the threads that call create
Threads == 1..NumThreads
NoThread == [pc |-> "idle", template |-> <<>>, uuid |-> <<>>, cattrs |-> <<>>,
             rv |-> "none", obj |-> [handle |-> 0, attributes |-> <<>>, none |-> TRUE]]
\* INIT not run, ATTR_DEFAULTS.data_object_template = None, no thread in create
NoTpls == [once |-> "incomplete", template |-> <<>>, inits |-> 0,
           th |-> [t \in Threads |-> NoThread]]
HsUnused == hs = NoHs
TplsUnused == tpls = NoTpls
AuxUnused == HsUnused /\ TplsUnused
ExtUnused == EcUnused /\ MechUnused /\ ImpUnused /\ LibUnused /\ AuxUnused

\* the steps of a call at which the provider can fail
ProviderSteps == {"setup", "update", "final"}

RsaDigestMechs == {"CKM_SHA1_RSA_PKCS", "CKM_SHA256_RSA_PKCS"}
RsaMechs == {"CKM_RSA_PKCS"} \cup RsaDigestMechs
HmacMechs == {"CKM_SHA256_HMAC", "CKM_SHA256_HMAC_GENERAL"}
ModulusLens == {PKCS1Overhead + k : k \in 1..MaxInput}
DataLens == 0..(MaxInput + 1)
\* CK_MECHANISM_INFO: key size limits in bits, 0 = no upper limit
MechInfos == {[ulMinKeySize |-> mn, ulMaxKeySize |-> mx] :
                 mn \in {0, 8 * (PKCS1Overhead + 2)}, mx \in {0, 8 * (PKCS1Overhead + 1)}}

\* what a call returns: the operation after it, the return code, and the
\* length it wrote through the caller's length pointer, if it wrote one
Res(o, rv) == [op |-> o, rv |-> rv, wrote |-> FALSE, len |-> 0]
ResLen(o, rv, len) == [op |-> o, rv |-> rv, wrote |-> TRUE, len |-> len]

(***************************************************************************)
(* Attribute (attribute.rs): id, variant and the raw octets of the value   *)
(***************************************************************************)
from_bool(id, b) == [type |-> id, atype |-> "BoolType", value |-> <<IF b THEN 1 ELSE 0>>]
\* a CK_ULONG: 8 octets, little endian (n < 256 here)
from_ulong(id, n) == [type |-> id, atype |-> "NumType", value |-> <<n, 0, 0, 0, 0, 0, 0, 0>>]
from_string(id, v) == [type |-> id, atype |-> "StringType", value |-> v]
from_bytes(id, v) == [type |-> id, atype |-> "BytesType", value |-> v]
\* the typed accessors fail on another variant
to_bool(a) == [ok |-> a.atype = "BoolType", val |-> a.value[1] # 0]
to_ulong(a) == [ok |-> a.atype = "NumType", val |-> a.value[1]]

\* PKCS#11 object classes and key types
CKO_DATA == 0
CKO_PUBLIC_KEY == 2
CKO_PRIVATE_KEY == 3
CKO_SECRET_KEY == 4
CKK_RSA == 0
CKK_DSA == 1
CKK_DH == 2
CKK_EC == 3
CKK_X9_42_DH == 4
CKK_GENERIC_SECRET == 16
CKK_EC_EDWARDS == 64
CKK_EC_MONTGOMERY == 65
\* (CK_ULONG)~0
CK_UNAVAILABLE_INFORMATION == -1

(***************************************************************************)
(* Object (object.rs)                                                      *)
(***************************************************************************)
NoObj == [handle |-> 0, attributes |-> <<>>, none |-> TRUE]

Object_new(handle) == [handle |-> handle, attributes |-> <<>>]

\* the indices of the attributes of type id
Positions(attrs, id) == {i \in DOMAIN attrs : attrs[i].type = id}
First(S) == CHOOSE i \in S : \A j \in S : i <= j

\* create_bool_checker!: the first attribute of that id, its default when
\* there is none or it is no Bool
bool_checker(o, id, def) ==
    LET S == Positions(o.attributes, id)
    IN  IF S = {} THEN def
        ELSE IF to_bool(o.attributes[First(S)]).ok
             THEN to_bool(o.attributes[First(S)]).val
             ELSE def

is_sensitive(o) == bool_checker(o, "CKA_SENSITIVE", TRUE)
is_extractable(o) == bool_checker(o, "CKA_EXTRACTABLE", FALSE)

\* set_attr that pushes without looking for the id
set_attr_push(o, a) ==
    [o EXCEPT !.attributes = Append(o.attributes, a)]

set_attr(o, a) ==
    LET S == Positions(o.attributes, a.type)
        idx == IF S = {} THEN Len(o.attributes) + 1 ELSE First(S)
    IN  IF idx <= Len(o.attributes)
        THEN [o EXCEPT !.attributes[idx] = a]
        ELSE [o EXCEPT !.attributes = Append(o.attributes, a)]

\* attr_as_type!
get_attr_as_ulong(o, t) ==
    LET S == Positions(o.attributes, t)
    IN  IF S = {} THEN [rv |-> "not found", val |-> 0]
        ELSE IF ~to_ulong(o.attributes[First(S)]).ok
             THEN [rv |-> "CKR_ATTRIBUTE_TYPE_INVALID", val |-> 0]
             ELSE [rv |-> "CKR_OK", val |-> to_ulong(o.attributes[First(S)]).val]

\* the value the loop of private_key_type leaves in class / key_type: that
\* of the last attribute of the id
LastUlong(o, id) ==
    LET S == Positions(o.attributes, id)
        last_i == CHOOSE i \in S : \A j \in S : j <= i
    IN  IF S = {} THEN CK_UNAVAILABLE_INFORMATION
        ELSE IF to_ulong(o.attributes[last_i]).ok
             THEN to_ulong(o.attributes[last_i]).val
             ELSE CK_UNAVAILABLE_INFORMATION

private_key_type(o) ==
    LET class == LastUlong(o, "CKA_CLASS")
        key_type == LastUlong(o, "CKA_KEY_TYPE")
    IN  IF class = CKO_PRIVATE_KEY \/ class = CKO_SECRET_KEY
        THEN [some |-> TRUE, kt |-> key_type]
        ELSE [some |-> FALSE, kt |-> 0]

SENSITIVE_CKK_RSA == {"CKA_PRIVATE_EXPONENT", "CKA_PRIME_1", "CKA_PRIME_2",
                      "CKA_EXPONENT_1", "CKA_EXPONENT_2", "CKA_COEFFICIENT"}

\* the SENSITIVE table: key type -> sensitive attribute ids
SENSITIVE ==
    [kt \in {CKK_RSA, CKK_EC, CKK_EC_EDWARDS, CKK_EC_MONTGOMERY, CKK_DH,
             CKK_X9_42_DH, CKK_DSA, CKK_GENERIC_SECRET} |->
        IF kt = CKK_RSA THEN SENSITIVE_CKK_RSA
        ELSE IF kt \in {CKK_EC, CKK_EC_EDWARDS, CKK_EC_MONTGOMERY} THEN {"CKA_VALUE"}
        ELSE IF kt \in {CKK_DH, CKK_X9_42_DH} THEN {"CKA_VALUE", "CKA_VALUE_BITS"}
        ELSE IF kt = CKK_DSA THEN {"CKA_VALUE"}
        ELSE {"CKA_VALUE", "CKA_VALUE_LEN"}]

needs_sensitivity_check(o) ==
    LET kt == private_key_type(o)
    IN  IF kt.some /\ kt.kt \in DOMAIN SENSITIVE
        THEN [some |-> TRUE, ids |-> SENSITIVE[kt.kt]]
        ELSE [some |-> FALSE, ids |-> {}]

is_sensitive_attr(o, id, sense) ==
    IF id \notin sense THEN FALSE
    ELSE IF is_sensitive(o) THEN TRUE
    ELSE IF ~is_extractable(o) THEN TRUE
    ELSE FALSE

\* A CK_ATTRIBUTE of a fill_template call: type_, pValue (null, or a buffer
\* buf of ulValueLen octets), ulValueLen.
\* The body of the loop of fill_template: the entry after it, and the code
\* it stores in rv ("CKR_OK": rv is left as it is).

\* the loop body without the branch for a null pValue
fill_elem_no_null(o, sense, elem) ==
    LET S == Positions(o.attributes, elem.type_)
        val == o.attributes[First(S)].value
    IN  IF sense.some /\ is_sensitive_attr(o, elem.type_, sense.ids)
        THEN [elem |-> [elem EXCEPT !.ulValueLen = CK_UNAVAILABLE_INFORMATION],
              rv |-> "CKR_ATTRIBUTE_SENSITIVE"]
        ELSE IF S = {}
        THEN [elem |-> [elem EXCEPT !.ulValueLen = CK_UNAVAILABLE_INFORMATION],
              rv |-> "CKR_ATTRIBUTE_TYPE_INVALID"]
        ELSE IF elem.null \/ elem.ulValueLen < Len(val)
        THEN [elem |-> [elem EXCEPT !.ulValueLen = CK_UNAVAILABLE_INFORMATION],
              rv |-> "CKR_BUFFER_TOO_SMALL"]
        ELSE [elem |-> [elem EXCEPT
                          !.buf = val \o SubSeq(elem.buf, Len(val) + 1, Len(elem.buf)),
                          !.ulValueLen = Len(val)],
              rv |-> "CKR_OK"]

fill_elem(o, sense, elem) ==
    LET S == Positions(o.attributes, elem.type_)
        val == o.attributes[First(S)].value
    IN  IF sense.some /\ is_sensitive_attr(o, elem.type_, sense.ids)
        THEN [elem |-> [elem EXCEPT !.ulValueLen = CK_UNAVAILABLE_INFORMATION],
              rv |-> "CKR_ATTRIBUTE_SENSITIVE"]
        ELSE IF S = {}
        THEN [elem |-> [elem EXCEPT !.ulValueLen = CK_UNAVAILABLE_INFORMATION],
              rv |-> "CKR_ATTRIBUTE_TYPE_INVALID"]
        ELSE IF elem.null
        THEN [elem |-> [elem EXCEPT !.ulValueLen = Len(val)], rv |-> "CKR_OK"]
        ELSE IF elem.ulValueLen < Len(val)
        THEN [elem |-> [elem EXCEPT !.ulValueLen = CK_UNAVAILABLE_INFORMATION],
              rv |-> "CKR_BUFFER_TOO_SMALL"]
        ELSE [elem |-> [elem EXCEPT
                          !.buf = val \o SubSeq(elem.buf, Len(val) + 1, Len(elem.buf)),
                          !.ulValueLen = Len(val)],
              rv |-> "CKR_OK"]

\* for elem in template.iter_mut(): entries i.. with rv as it stands
RECURSIVE fill_template_loop(_, _, _, _, _)
fill_template_loop(o, sense, template, i, rv) ==
    IF i > Len(template) THEN [template |-> template, rv |-> rv]
    ELSE LET r == fill_elem(o, sense, template[i])
         IN  fill_template_loop(o, sense, [template EXCEPT ![i] = r.elem], i + 1,
                                IF r.rv # "CKR_OK" THEN r.rv ELSE rv)

fill_template(o, template) ==
    fill_template_loop(o, needs_sensitivity_check(o), template, 1, "CKR_OK")

\* attr_element!: a schema entry
attr_element(attribute, required, default) ==
    [attribute |-> attribute, required |-> required, present |-> FALSE,
     default |-> default]

\* lazy_init_data_object_template: the common object, common storage and
\* data object attributes, in this order
data_object_template ==
    << attr_element(from_ulong("CKA_CLASS", 0), TRUE, FALSE),
       attr_element(from_bool("CKA_TOKEN", FALSE), FALSE, TRUE),
       attr_element(from_bool("CKA_PRIVATE", FALSE), FALSE, TRUE),
       attr_element(from_bool("CKA_MODIFIABLE", TRUE), FALSE, TRUE),
       attr_element(from_string("CKA_LABEL", <<>>), FALSE, FALSE),
       attr_element(from_bool("CKA_COPYABLE", TRUE), FALSE, TRUE),
       attr_element(from_bool("CKA_DESTROYABLE", TRUE), FALSE, TRUE),
       attr_element(from_string("CKA_UNIQUE_ID", <<>>), TRUE, FALSE),
       attr_element(from_string("CKA_APPLICATION", <<>>), TRUE, FALSE),
       attr_element(from_bytes("CKA_OBJECT_ID", <<>>), FALSE, FALSE),
       attr_element(from_bytes("CKA_VALUE", <<>>), TRUE, FALSE) >>

\* the first loop without the test of elem.present
RECURSIVE check_attrs_valid_no_dup(_, _, _)
check_attrs_valid_no_dup(attrs, i, cattrs) ==
    IF i > Len(attrs) THEN [rv |-> "CKR_OK", cattrs |-> cattrs]
    ELSE LET S == {k \in DOMAIN cattrs : cattrs[k].attribute.type = attrs[i].type}
         IN  IF S = {} THEN [rv |-> "CKR_ATTRIBUTE_VALUE_INVALID", cattrs |-> cattrs]
             ELSE check_attrs_valid_no_dup(attrs, i + 1,
                                           [cattrs EXCEPT ![First(S)].present = TRUE])

\* first loop of basic_object_attrs_checks: every attribute of the object
\* must be in the schema, once
RECURSIVE check_attrs_valid(_, _, _)
check_attrs_valid(attrs, i, cattrs) ==
    IF i > Len(attrs) THEN [rv |-> "CKR_OK", cattrs |-> cattrs]
    ELSE LET S == {k \in DOMAIN cattrs : cattrs[k].attribute.type = attrs[i].type}
         IN  IF S = {} THEN [rv |-> "CKR_ATTRIBUTE_VALUE_INVALID", cattrs |-> cattrs]
             ELSE IF cattrs[First(S)].present
                  THEN [rv |-> "CKR_TEMPLATE_INCONSISTENT", cattrs |-> cattrs]
             ELSE check_attrs_valid(attrs, i + 1,
                                    [cattrs EXCEPT ![First(S)].present = TRUE])

\* the second loop without the push of the defaults
RECURSIVE check_attrs_defaults_none(_, _, _)
check_attrs_defaults_none(o, cattrs, k) ==
    IF k > Len(cattrs) THEN [rv |-> "CKR_OK", obj |-> o]
    ELSE IF cattrs[k].required /\ ~cattrs[k].present
         THEN [rv |-> "CKR_TEMPLATE_INCOMPLETE", obj |-> o]
         ELSE check_attrs_defaults_none(o, cattrs, k + 1)

\* second loop: push the defaults, require the required
RECURSIVE check_attrs_defaults(_, _, _)
check_attrs_defaults(o, cattrs, k) ==
    IF k > Len(cattrs) THEN [rv |-> "CKR_OK", obj |-> o]
    ELSE LET elem == cattrs[k]
             push == ~elem.present /\ elem.default
             o1 == IF push
                   THEN [o EXCEPT !.attributes = Append(o.attributes, elem.attribute)]
                   ELSE o
         IN  IF elem.required /\ ~(elem.present \/ push)
             THEN [rv |-> "CKR_TEMPLATE_INCOMPLETE", obj |-> o1]
             ELSE check_attrs_defaults(o1, cattrs, k + 1)

basic_object_attrs_checks(o, cattrs) ==
    LET v == check_attrs_valid(o.attributes, 1, cattrs)
    IN  IF v.rv # "CKR_OK" THEN [rv |-> v.rv, obj |-> o]
        ELSE check_attrs_defaults(o, v.cattrs, 1)

\* CK_ATTRIBUTE::to_attribute: a template entry is the attribute it decodes
\* to, or does not decode (its length contradicts the variant of its id)
to_attribute(ck_attr) ==
    IF ck_attr.decodes THEN [rv |-> "CKR_OK", attr |-> ck_attr.attr]
    ELSE [rv |-> "CKR_ATTRIBUTE_VALUE_INVALID", attr |-> ck_attr.attr]

\* create and create_data_object; uuid: the Uuid::new_v4() drawn
create(handle, template, uuid) ==
    LET bad == {i \in DOMAIN template : to_attribute(template[i]).rv # "CKR_OK"}
        o == [handle |-> handle,
              attributes |-> <<from_string("CKA_UNIQUE_ID", uuid)>>
                             \o [i \in DOMAIN template |-> to_attribute(template[i]).attr]]
        class == get_attr_as_ulong(o, "CKA_CLASS")
    IN  IF bad # {} THEN [rv |-> to_attribute(template[First(bad)]).rv, obj |-> NoObj]
        ELSE IF class.rv # "CKR_OK" THEN [rv |-> "CKR_TEMPLATE_INCOMPLETE", obj |-> NoObj]
        ELSE IF class.val = CKO_DATA
             THEN LET r == basic_object_attrs_checks(o, data_object_template)
                  IN  IF r.rv # "CKR_OK" THEN [rv |-> r.rv, obj |-> NoObj]
                      ELSE [rv |-> "CKR_OK", obj |-> r.obj]
        ELSE [rv |-> "CKR_ATTRIBUTE_VALUE_INVALID", obj |-> NoObj]

(***************************************************************************)
(* The calls on an object                                                  *)
(***************************************************************************)
NoObjCall == [call |-> "none"]
ObjUnused == obj = NoObj /\ olast = NoObjCall

\* sequences over E of length 0..n
SeqsUpTo(E, n) == UNION {[1..k -> E] : k \in 0..n}

\* the attributes set_attr is called with
SetAttrs ==
    {from_ulong("CKA_CLASS", CKO_DATA), from_ulong("CKA_CLASS", CKO_SECRET_KEY),
     from_bool("CKA_TOKEN", TRUE), from_bool("CKA_TOKEN", FALSE),
     from_bytes("CKA_VALUE", <<1>>), from_bytes("CKA_VALUE", <<2, 3>>),
     from_string("CKA_LABEL", <<108>>)}

\* the entries of the templates create is called with; the last one is a
\* CKA_TOKEN of two octets, which does not decode
CreateEntries ==
    {[attr |-> a, decodes |-> TRUE] :
        a \in {from_ulong("CKA_CLASS", CKO_DATA), from_ulong("CKA_CLASS", CKO_SECRET_KEY),
               from_bool("CKA_TOKEN", TRUE), from_string("CKA_APPLICATION", <<116>>),
               from_bytes("CKA_VALUE", <<1, 2, 3>>), from_string("CKA_UNIQUE_ID", <<120>>),
               from_ulong("CKA_KEY_TYPE", CKK_RSA)}}
    \cup {[attr |-> from_bytes("CKA_TOKEN", <<1, 1>>), decodes |-> FALSE]}

UUIDs == {<<97>>, <<98>>}

ObjNew ==
    /\ obj = NoObj
    /\ olast = NoObjCall
    /\ obj' = Object_new(1)
    /\ olast' = [call |-> "new"]
    /\ UNCHANGED <<opvars, stvars, hmvars, extvars>>

SetAttr ==
    /\ obj # NoObj
    /\ \E a \in SetAttrs :
          /\ obj' = set_attr(obj, a)
          /\ olast' = [call |-> "set_attr", pre |-> obj.attributes, arg |-> a]
    /\ UNCHANGED <<opvars, stvars, hmvars, extvars>>

Create ==
    /\ obj = NoObj
    /\ olast = NoObjCall
    /\ \E template \in SeqsUpTo(CreateEntries, MaxCreateLen), uuid \in UUIDs :
          LET r == create(1, template, uuid)
          IN  /\ obj' = r.obj
              /\ olast' = [call |-> "create", arg |-> template, uuid |-> uuid,
                           rv |-> r.rv]
    /\ UNCHANGED <<opvars, stvars, hmvars, extvars>>

\* the object, or the error create returned, goes out of scope
ObjDrop ==
    /\ olast # NoObjCall
    /\ obj' = NoObj
    /\ olast' = NoObjCall
    /\ UNCHANGED <<opvars, stvars, hmvars, extvars>>

InitObj ==
    /\ obj = NoObj
    /\ olast = NoObjCall
    /\ OpUnused
    /\ StUnused
    /\ HmUnused
    /\ ExtUnused

NextObj == ObjNew \/ SetAttr \/ Create \/ ObjDrop

SpecObj == InitObj /\ [][NextObj]_vars

(***************************************************************************)
(* fill_template on the objects of a key store                             *)
(***************************************************************************)
Opt(S) == {<<>>} \cup {<<a>> : a \in S}

\* objects as Object::new and set_attr build them: a class, and optionally
\* a key type, CKA_SENSITIVE, CKA_EXTRACTABLE and three value attributes
FillObjects ==
    {[handle |-> 1, attributes |-> c \o k \o s \o e \o m \o d \o v] :
        c \in {<<from_ulong("CKA_CLASS", x)>> :
                  x \in {CKO_PUBLIC_KEY, CKO_PRIVATE_KEY, CKO_SECRET_KEY}},
        k \in Opt({from_ulong("CKA_KEY_TYPE", x) : x \in {CKK_RSA, CKK_GENERIC_SECRET}}),
        s \in Opt({from_bool("CKA_SENSITIVE", b) : b \in BOOLEAN}),
        e \in Opt({from_bool("CKA_EXTRACTABLE", TRUE)}),
        m \in Opt({from_bytes("CKA_MODULUS", <<7, 7>>)}),
        d \in Opt({from_bytes("CKA_PRIVATE_EXPONENT", <<9, 9>>)}),
        v \in Opt({from_bytes("CKA_VALUE", <<5>>)})}

FillIds == {"CKA_MODULUS", "CKA_PRIVATE_EXPONENT", "CKA_VALUE"}

\* the caller's entries: a null pValue, or a zeroed buffer of 1..2 octets
FillElems ==
    {[type_ |-> id, null |-> TRUE, buf |-> <<>>, ulValueLen |-> 0] : id \in FillIds}
    \cup {[type_ |-> id, null |-> FALSE, buf |-> [i \in 1..n |-> 0], ulValueLen |-> n] :
             id \in FillIds, n \in 1..2}

FillTemplate ==
    /\ olast.call = "none"
    /\ \E template \in SeqsUpTo(FillElems, MaxTemplateLen) :
          LET r == fill_template(obj, template)
          IN  olast' = [call |-> "fill_template", arg |-> template,
                        out |-> r.template, rv |-> r.rv]
    /\ UNCHANGED <<obj, opvars, stvars, hmvars, extvars>>

InitFill ==
    /\ obj \in FillObjects
    /\ olast = NoObjCall
    /\ OpUnused
    /\ StUnused
    /\ HmUnused
    /\ ExtUnused

NextFill == FillTemplate

SpecFill == InitFill /\ [][NextFill]_vars

(***************************************************************************)
(* EC-Montgomery keys (ec/montgomery.rs): the public key factory and the   *)
(* key pair generation of ECMontgomeryMechanism.                           *)
(***************************************************************************)
\* the contents octets of the OIDs 1.3.101.110, 1.3.101.111 and 1.3.101.112
X25519_OID == <<43, 101, 110>>
X448_OID == <<43, 101, 111>>
ED25519_OID == <<43, 101, 112>>

\* the DER encoding of an OID: tag 06, length, contents
DerOid(oid) == <<6, Len(oid)>> \o oid

\* get_oid_from_obj: the OID that CKA_EC_PARAMS encodes; err is the error of
\* the decoder for octets that are no DER OID
get_oid_from_obj(o, err) ==
    LET S == Positions(o.attributes, "CKA_EC_PARAMS")
        v == o.attributes[First(S)].value
    IN  IF S = {} THEN [rv |-> "not found", oid |-> <<>>]
        ELSE IF Len(v) >= 2 /\ v[1] = 6 /\ v[2] = Len(v) - 2
             THEN [rv |-> "CKR_OK", oid |-> SubSeq(v, 3, Len(v))]
        ELSE [rv |-> err, oid |-> <<>>]

get_ec_point_from_obj(o) ==
    LET S == Positions(o.attributes, "CKA_EC_POINT")
    IN  IF S = {} THEN [rv |-> "not found", point |-> <<>>]
        ELSE [rv |-> "CKR_OK", point |-> o.attributes[First(S)].value]

\* the octets of a public point of the curve
ec_point_size(oid) ==
    IF oid = X25519_OID THEN [rv |-> "CKR_OK", size |-> 32]
    ELSE IF oid = X448_OID THEN [rv |-> "CKR_OK", size |-> 56]
    ELSE [rv |-> "CKR_GENERAL_ERROR", size |-> 0]

\* a closure that hands the error of the accessor on
ec_map_err_passthrough(e) ==
    IF e = "not found" THEN "CKR_TEMPLATE_INCOMPLETE" ELSE e

\* the closure of map_err in create: the code returned for the error e of
\* one of the two accessors
ec_map_err(e) ==
    IF e = "not found" THEN "CKR_TEMPLATE_INCOMPLETE"
    ELSE IF e # "CKR_ATTRIBUTE_VALUE_INVALID" THEN "CKR_ATTRIBUTE_VALUE_INVALID"
    ELSE "CKR_GENERAL_ERROR"

\* ECMontgomeryPubFactory::new and ECMontgomeryPrivFactory::new; generate:
\* the attributes required on create only are not required
ECMontgomeryPubFactory_new(generate) ==
    << attr_element(from_ulong("CKA_CLASS", 0), ~generate, FALSE),
       attr_element(from_string("CKA_UNIQUE_ID", <<>>), FALSE, FALSE),
       attr_element(from_bool("CKA_TOKEN", FALSE), FALSE, TRUE),
       attr_element(from_ulong("CKA_KEY_TYPE", 0), ~generate, FALSE),
       attr_element(from_bytes("CKA_EC_PARAMS", <<>>), TRUE, FALSE),
       attr_element(from_bytes("CKA_EC_POINT", <<>>), ~generate, FALSE) >>

ECMontgomeryPrivFactory_new(generate) ==
    << attr_element(from_ulong("CKA_CLASS", 0), ~generate, FALSE),
       attr_element(from_string("CKA_UNIQUE_ID", <<>>), FALSE, FALSE),
       attr_element(from_bool("CKA_TOKEN", FALSE), FALSE, TRUE),
       attr_element(from_ulong("CKA_KEY_TYPE", 0), ~generate, FALSE),
       attr_element(from_bool("CKA_PRIVATE", TRUE), FALSE, TRUE),
       attr_element(from_bytes("CKA_EC_PARAMS", <<>>), ~generate, FALSE),
       attr_element(from_bytes("CKA_VALUE", <<>>), ~generate, FALSE) >>

\* default_object_create and default_object_generate: the create algorithm
\* of a factory on the schema cattrs
default_object_create(cattrs, template, uuid) ==
    LET bad == {i \in DOMAIN template : to_attribute(template[i]).rv # "CKR_OK"}
        o == [handle |-> 0,
              attributes |-> <<from_string("CKA_UNIQUE_ID", uuid)>>
                             \o [i \in DOMAIN template |-> to_attribute(template[i]).attr]]
        r == basic_object_attrs_checks(o, cattrs)
    IN  IF bad # {} THEN [rv |-> to_attribute(template[First(bad)]).rv, obj |-> NoObj]
        ELSE IF r.rv # "CKR_OK" THEN [rv |-> r.rv, obj |-> NoObj]
        ELSE [rv |-> "CKR_OK", obj |-> r.obj]

\* err: what get_oid_from_obj reports for octets it cannot decode
ECMontgomeryPubFactory_create(template, uuid, err) ==
    LET c == default_object_create(ECMontgomeryPubFactory_new(FALSE), template, uuid)
        oid == get_oid_from_obj(c.obj, err)
        point == get_ec_point_from_obj(c.obj)
        size == ec_point_size(oid.oid)
    IN  IF c.rv # "CKR_OK" THEN c
        ELSE IF oid.rv # "CKR_OK" THEN [rv |-> ec_map_err(oid.rv), obj |-> NoObj]
        ELSE IF oid.oid \notin {X25519_OID, X448_OID}
             THEN [rv |-> "CKR_ATTRIBUTE_VALUE_INVALID", obj |-> NoObj]
        ELSE IF point.rv # "CKR_OK" THEN [rv |-> ec_map_err(point.rv), obj |-> NoObj]
        ELSE IF size.rv # "CKR_OK" THEN [rv |-> size.rv, obj |-> NoObj]
        ELSE IF Len(point.point) # size.size
             THEN [rv |-> "CKR_ATTRIBUTE_VALUE_INVALID", obj |-> NoObj]
        ELSE c

\* Object::check_or_set_attr: ok is FALSE when the object has the attribute
\* with another value; an absent attribute is added
check_or_set_attr(o, a) ==
    LET S == Positions(o.attributes, a.type)
    IN  IF S = {} THEN [ok |-> TRUE, obj |-> [o EXCEPT !.attributes = Append(@, a)]]
        ELSE [ok |-> o.attributes[First(S)].value = a.value, obj |-> o]

\* get_attr_as_bytes
get_attr_as_bytes(o, t) ==
    LET S == Positions(o.attributes, t)
    IN  IF S = {} THEN [rv |-> "not found", val |-> <<>>]
        ELSE IF o.attributes[First(S)].atype # "BytesType"
             THEN [rv |-> "CKR_ATTRIBUTE_TYPE_INVALID", val |-> <<>>]
        ELSE [rv |-> "CKR_OK", val |-> o.attributes[First(S)].value]

\* an octet string of n octets
Octets(n) == [k \in 1..n |-> 9]

\* ECMontgomeryOperation::generate_keypair: the provider's key generation on
\* the curve of the public key's CKA_EC_PARAMS, then default_key_attributes
ECMontgomeryOperation_generate_keypair(pubkey, privkey, fail) ==
    LET oid == get_oid_from_obj(pubkey, "CKR_DEVICE_ERROR")
        size == ec_point_size(oid.oid)
    IN  IF oid.rv # "CKR_OK" THEN [rv |-> "CKR_GENERAL_ERROR", pub |-> NoObj, priv |-> NoObj]
        ELSE IF size.rv # "CKR_OK" THEN [rv |-> size.rv, pub |-> NoObj, priv |-> NoObj]
        ELSE IF fail THEN [rv |-> "CKR_DEVICE_ERROR", pub |-> NoObj, priv |-> NoObj]
        ELSE [rv |-> "CKR_OK",
              pub |-> set_attr(set_attr(pubkey, from_bytes("CKA_EC_POINT", Octets(size.size))),
                               from_bool("CKA_LOCAL", TRUE)),
              priv |-> set_attr(set_attr(privkey, from_bytes("CKA_VALUE", Octets(size.size))),
                                from_bool("CKA_LOCAL", TRUE))]

NoPair(rv) == [rv |-> rv, pub |-> NoObj, priv |-> NoObj]

\* a key pair generation that copies CKA_EC_PARAMS with set_attr
ECMontgomeryMechanism_generate_keypair_set_params(pubkey_template, prikey_template, uuids, fail) ==
    LET g1 == default_object_create(ECMontgomeryPubFactory_new(TRUE), pubkey_template, uuids[1])
        p1 == check_or_set_attr(g1.obj, from_ulong("CKA_CLASS", CKO_PUBLIC_KEY))
        p2 == check_or_set_attr(p1.obj, from_ulong("CKA_KEY_TYPE", CKK_EC_EDWARDS))
        g2 == default_object_create(ECMontgomeryPrivFactory_new(TRUE), prikey_template, uuids[2])
        q1 == check_or_set_attr(g2.obj, from_ulong("CKA_CLASS", CKO_PRIVATE_KEY))
        q2 == check_or_set_attr(q1.obj, from_ulong("CKA_KEY_TYPE", CKK_EC_EDWARDS))
        ec_params == get_attr_as_bytes(p2.obj, "CKA_EC_PARAMS")
        q3 == set_attr(q2.obj, from_bytes("CKA_EC_PARAMS", ec_params.val))
    IN  IF g1.rv # "CKR_OK" THEN NoPair(g1.rv)
        ELSE IF ~p1.ok THEN NoPair("CKR_TEMPLATE_INCONSISTENT")
        ELSE IF ~p2.ok THEN NoPair("CKR_TEMPLATE_INCONSISTENT")
        ELSE IF g2.rv # "CKR_OK" THEN NoPair(g2.rv)
        ELSE IF ~q1.ok THEN NoPair("CKR_TEMPLATE_INCONSISTENT")
        ELSE IF ~q2.ok THEN NoPair("CKR_TEMPLATE_INCONSISTENT")
        ELSE IF ec_params.rv # "CKR_OK" THEN NoPair("CKR_ATTRIBUTE_VALUE_INVALID")
        ELSE ECMontgomeryOperation_generate_keypair(p2.obj, q3, fail)

\* register: the object types under which the two factories are added
ECMontgomery_register_factories ==
    [pub |-> [class |-> CKO_PUBLIC_KEY, key_type |-> CKK_EC_MONTGOMERY],
     priv |-> [class |-> CKO_PRIVATE_KEY, key_type |-> CKK_EC_MONTGOMERY]]

\* uuids: the two Uuid::new_v4() drawn; fail: the provider's key generation
\* fails
ECMontgomeryMechanism_generate_keypair(pubkey_template, prikey_template, uuids, fail) ==
    LET g1 == default_object_create(ECMontgomeryPubFactory_new(TRUE), pubkey_template, uuids[1])
        p1 == check_or_set_attr(g1.obj, from_ulong("CKA_CLASS", CKO_PUBLIC_KEY))
        p2 == check_or_set_attr(p1.obj, from_ulong("CKA_KEY_TYPE", CKK_EC_EDWARDS))
        g2 == default_object_create(ECMontgomeryPrivFactory_new(TRUE), prikey_template, uuids[2])
        q1 == check_or_set_attr(g2.obj, from_ulong("CKA_CLASS", CKO_PRIVATE_KEY))
        q2 == check_or_set_attr(q1.obj, from_ulong("CKA_KEY_TYPE", CKK_EC_EDWARDS))
        ec_params == get_attr_as_bytes(p2.obj, "CKA_EC_PARAMS")
        q3 == check_or_set_attr(q2.obj, from_bytes("CKA_EC_PARAMS", ec_params.val))
    IN  IF g1.rv # "CKR_OK" THEN NoPair(g1.rv)
        ELSE IF ~p1.ok THEN NoPair("CKR_TEMPLATE_INCONSISTENT")
        ELSE IF ~p2.ok THEN NoPair("CKR_TEMPLATE_INCONSISTENT")
        ELSE IF g2.rv # "CKR_OK" THEN NoPair(g2.rv)
        ELSE IF ~q1.ok THEN NoPair("CKR_TEMPLATE_INCONSISTENT")
        ELSE IF ~q2.ok THEN NoPair("CKR_TEMPLATE_INCONSISTENT")
        ELSE IF ec_params.rv # "CKR_OK" THEN NoPair("CKR_ATTRIBUTE_VALUE_INVALID")
        ELSE IF ~q3.ok THEN NoPair("CKR_TEMPLATE_INCONSISTENT")
        ELSE ECMontgomeryOperation_generate_keypair(p2.obj, q3.obj, fail)

(***************************************************************************)
(* The calls on the EC-Montgomery factory and mechanism                    *)
(***************************************************************************)
\* the octets <<6, 3, 43>>: an OID cut short
EcCreateEntries ==
    {[attr |-> a, decodes |-> TRUE] :
        a \in {from_ulong("CKA_CLASS", CKO_PUBLIC_KEY),
               from_ulong("CKA_KEY_TYPE", CKK_EC_MONTGOMERY),
               from_bytes("CKA_EC_PARAMS", DerOid(X25519_OID)),
               from_bytes("CKA_EC_PARAMS", DerOid(X448_OID)),
               from_bytes("CKA_EC_PARAMS", DerOid(ED25519_OID)),
               from_bytes("CKA_EC_PARAMS", <<6, 3, 43>>),
               from_bytes("CKA_EC_POINT", Octets(32)),
               from_bytes("CKA_EC_POINT", Octets(56)),
               from_bytes("CKA_EC_POINT", Octets(31))}}

EcGenEntries ==
    {[attr |-> a, decodes |-> TRUE] :
        a \in {from_ulong("CKA_CLASS", CKO_PUBLIC_KEY),
               from_ulong("CKA_CLASS", CKO_PRIVATE_KEY),
               from_ulong("CKA_KEY_TYPE", CKK_EC_EDWARDS),
               from_ulong("CKA_KEY_TYPE", CKK_EC_MONTGOMERY),
               from_bytes("CKA_EC_PARAMS", DerOid(X25519_OID)),
               from_bytes("CKA_EC_PARAMS", DerOid(X448_OID))}}

\* what the decoder of CKA_EC_PARAMS may report for octets that are no OID
EcDecodeErrors == {"CKR_GENERAL_ERROR", "CKR_DEVICE_ERROR"}
EcErrorsFor(template) ==
    IF \E i \in DOMAIN template : template[i].attr.value = <<6, 3, 43>>
    THEN EcDecodeErrors ELSE {"CKR_GENERAL_ERROR"}

EcUUIDs == <<(<<97>>), (<<98>>)>>

EcCreate ==
    /\ ec = NoEc
    /\ \E template \in SeqsUpTo(EcCreateEntries, MaxEcCreateLen) :
       \E err \in EcErrorsFor(template) :
          LET r == ECMontgomeryPubFactory_create(template, EcUUIDs[1], err)
          IN  ec' = [call |-> "create", template |-> template, err |-> err,
                     rv |-> r.rv, obj |-> r.obj]
    /\ UNCHANGED <<corevars, mechs, imp, rng, lib>>

EcGenerateKeyPair ==
    /\ ec = NoEc
    /\ \E pubkey_template \in SeqsUpTo(EcGenEntries, MaxEcGenLen),
          prikey_template \in SeqsUpTo(EcGenEntries, MaxEcGenLen),
          fail \in BOOLEAN :
          LET r == ECMontgomeryMechanism_generate_keypair(pubkey_template,
                       prikey_template, EcUUIDs, fail)
          IN  ec' = [call |-> "generate_keypair", pub_template |-> pubkey_template,
                     pri_template |-> prikey_template, fail |-> fail,
                     rv |-> r.rv, pub |-> r.pub, priv |-> r.priv]
    /\ UNCHANGED <<corevars, mechs, imp, rng, lib>>

\* the result goes out of scope
EcDrop ==
    /\ ec # NoEc
    /\ ec' = NoEc
    /\ UNCHANGED <<corevars, mechs, imp, rng, lib>>

InitEc ==
    /\ ec = NoEc
    /\ OpUnused
    /\ ObjUnused
    /\ StUnused
    /\ HmUnused
    /\ MechUnused
    /\ ImpUnused
    /\ LibUnused
    /\ AuxUnused

NextEc == EcCreate \/ EcGenerateKeyPair \/ EcDrop

SpecEc == InitEc /\ [][NextEc]_vars

(***************************************************************************)
(* JsonStorage (storage/json.rs)                                           *)
(***************************************************************************)
\* The attribute table: the name and the variant of every attribute id, in
\* the order of the names, which is the order a serde_json Map iterates in.
AttrTable ==
    << [name |-> "CKA_ALLOWED_MECHANISMS", atype |-> "IgnoreType"],
       [name |-> "CKA_APPLICATION", atype |-> "StringType"],
       [name |-> "CKA_CLASS", atype |-> "NumType"],
       [name |-> "CKA_COPYABLE", atype |-> "BoolType"],
       [name |-> "CKA_DESTROYABLE", atype |-> "BoolType"],
       [name |-> "CKA_LABEL", atype |-> "StringType"],
       [name |-> "CKA_MODIFIABLE", atype |-> "BoolType"],
       [name |-> "CKA_OBJECT_ID", atype |-> "BytesType"],
       [name |-> "CKA_PRIVATE", atype |-> "BoolType"],
       [name |-> "CKA_START_DATE", atype |-> "DateType"],
       [name |-> "CKA_TOKEN", atype |-> "BoolType"],
       [name |-> "CKA_UNIQUE_ID", atype |-> "StringType"],
       [name |-> "CKA_VALUE", atype |-> "BytesType"],
       [name |-> "CKA_WRAP_TEMPLATE", atype |-> "DenyType"] >>

\* Attribute::name
Attribute_name(a) == a.type

\* AttrType::attr_name_to_id_type
attr_name_to_id_type(key) ==
    LET S == {k \in DOMAIN AttrTable : AttrTable[k].name = key}
    IN  IF S = {} THEN [rv |-> "CKR_ATTRIBUTE_TYPE_INVALID", atype |-> "none"]
        ELSE [rv |-> "CKR_OK", atype |-> AttrTable[First(S)].atype]

\* Attribute::to_string: the octets as UTF-8 (octets below 128 here)
to_string(a) ==
    [ok |-> a.atype = "StringType" /\ \A i \in DOMAIN a.value : a.value[i] < 128,
     val |-> a.value]

\* a CK_DATE: the eight digits of year, month and day as characters, or no
\* octets at all (the default empty date)
from_date_bytes(id, v) == [type |-> id, atype |-> "DateType", value |-> v]
from_ignore(id, v) == [type |-> id, atype |-> "IgnoreType", value |-> v]
IsDigits(v) == \A i \in DOMAIN v : v[i] >= 48 /\ v[i] <= 57
\* Attribute::to_date_string: YYYYMMDD, the empty string for the empty date
to_date_string(a) ==
    [ok |-> a.atype = "DateType" /\ Len(a.value) \in {0, 8} /\ IsDigits(a.value),
     val |-> a.value]
\* string_to_ck_date: the CK_DATE of a string YYYYMMDD
string_to_ck_date(v) ==
    IF Len(v) = 8 /\ IsDigits(v) THEN [rv |-> "CKR_OK", val |-> v]
    ELSE [rv |-> "CKR_ATTRIBUTE_VALUE_INVALID", val |-> <<>>]

is_token(o) == bool_checker(o, "CKA_TOKEN", FALSE)

\* BASE64 (RFC 4648, padded): the character of a sextet, as its ASCII code
B64Char(k) ==
    IF k < 26 THEN 65 + k
    ELSE IF k < 52 THEN 97 + (k - 26)
    ELSE IF k < 62 THEN 48 + (k - 52)
    ELSE IF k = 62 THEN 43 ELSE 47

\* the sextet of a character, -1 for a character outside the alphabet
B64Val(c) ==
    IF c >= 65 /\ c <= 90 THEN c - 65
    ELSE IF c >= 97 /\ c <= 122 THEN c - 97 + 26
    ELSE IF c >= 48 /\ c <= 57 THEN c - 48 + 52
    ELSE IF c = 43 THEN 62
    ELSE IF c = 47 THEN 63 ELSE -1

RECURSIVE BASE64_encode(_)
BASE64_encode(v) ==
    IF Len(v) = 0 THEN <<>>
    ELSE IF Len(v) = 1
    THEN <<B64Char(v[1] \div 4), B64Char((v[1] % 4) * 16), 61, 61>>
    ELSE IF Len(v) = 2
    THEN <<B64Char(v[1] \div 4), B64Char((v[1] % 4) * 16 + v[2] \div 16),
           B64Char((v[2] % 16) * 4), 61>>
    ELSE <<B64Char(v[1] \div 4), B64Char((v[1] % 4) * 16 + v[2] \div 16),
           B64Char((v[2] % 16) * 4 + v[3] \div 64), B64Char(v[3] % 64)>>
         \o BASE64_encode(SubSeq(v, 4, Len(v)))

\* decode_len and decode_mut: the octets, or an error for a length that is
\* no multiple of 4, a character outside the alphabet, padding that is not
\* at the end or trailing bits that are not zero
RECURSIVE BASE64_decode(_)
BASE64_decode(s) ==
    IF Len(s) = 0 THEN [ok |-> TRUE, val |-> <<>>]
    ELSE IF Len(s) % 4 # 0 THEN [ok |-> FALSE, val |-> <<>>]
    ELSE LET a == B64Val(s[1])
             b == B64Val(s[2])
             c == B64Val(s[3])
             d == B64Val(s[4])
             rest == BASE64_decode(SubSeq(s, 5, Len(s)))
         IN  IF a < 0 \/ b < 0 THEN [ok |-> FALSE, val |-> <<>>]
             ELSE IF Len(s) = 4 /\ s[3] = 61 /\ s[4] = 61
             THEN [ok |-> b % 16 = 0, val |-> <<a * 4 + b \div 16>>]
             ELSE IF Len(s) = 4 /\ c >= 0 /\ s[4] = 61
             THEN [ok |-> c % 4 = 0,
                   val |-> <<a * 4 + b \div 16, (b % 16) * 16 + c \div 4>>]
             ELSE IF c < 0 \/ d < 0 THEN [ok |-> FALSE, val |-> <<>>]
             ELSE [ok |-> rest.ok,
                   val |-> <<a * 4 + b \div 16, (b % 16) * 16 + c \div 4,
                             (c % 4) * 64 + d>> \o rest.val]

\* a serde_json Value: its kind and, as a sequence, the boolean (0 / 1), the
\* number, or the characters of the string
JNull == [kind |-> "Null", s |-> <<>>]
JBool(b) == [kind |-> "Bool", s |-> <<IF b THEN 1 ELSE 0>>]
JNumber(n) == [kind |-> "Number", s |-> <<n>>]
JString(v) == [kind |-> "String", s |-> v]

\* to_json_value with Bytes written as they are
to_json_value_raw_bytes(a) ==
    CASE a.atype = "BoolType" ->
            IF to_bool(a).ok THEN JBool(to_bool(a).val) ELSE JNull
      [] a.atype = "NumType" ->
            IF to_ulong(a).ok THEN JNumber(to_ulong(a).val) ELSE JNull
      [] a.atype = "StringType" ->
            IF to_string(a).ok THEN JString(to_string(a).val)
            ELSE JString(BASE64_encode(a.value))
      [] a.atype = "BytesType" -> JString(a.value)
      [] OTHER -> JNull

to_json_value(a) ==
    CASE a.atype = "BoolType" ->
            IF to_bool(a).ok THEN JBool(to_bool(a).val) ELSE JNull
      [] a.atype = "NumType" ->
            IF to_ulong(a).ok THEN JNumber(to_ulong(a).val) ELSE JNull
      [] a.atype = "StringType" ->
            IF to_string(a).ok THEN JString(to_string(a).val)
            ELSE JString(BASE64_encode(a.value))
      [] a.atype = "BytesType" -> JString(BASE64_encode(a.value))
      [] a.atype = "DateType" ->
            IF to_date_string(a).ok THEN JString(to_date_string(a).val)
            ELSE JString(<<>>)
      [] a.atype = "IgnoreType" -> JNull
      [] a.atype = "DenyType" -> JNull

\* JsonObject::from_object: a Map from the names to the values; insert
\* replaces, so the last attribute of a name stays
JsonObject_from_object(o) ==
    [key \in {Attribute_name(o.attributes[i]) : i \in DOMAIN o.attributes} |->
        LET S == {i \in DOMAIN o.attributes : Attribute_name(o.attributes[i]) = key}
        IN  to_json_value(o.attributes[CHOOSE i \in S : \A j \in S : j <= i])]

\* the keys of a Map in the order it iterates in; CKA_BOGUS is a name that
\* is not in the attribute table
KeyOrder ==
    <<"CKA_ALLOWED_MECHANISMS", "CKA_APPLICATION", "CKA_BOGUS">>
    \o [k \in 1..(Len(AttrTable) - 2) |-> AttrTable[k + 2].name]

\* the body of the inner loop of prime_cache up to set_attr: the attribute
\* a key and its value decode to
prime_attr(key, val) ==
    LET t == attr_name_to_id_type(key)
        d == BASE64_decode(val.s)
        bad == [rv |-> "CKR_ATTRIBUTE_VALUE_INVALID", attr |-> from_bytes(key, <<>>)]
    IN  IF t.rv # "CKR_OK" THEN [rv |-> t.rv, attr |-> from_bytes(key, <<>>)]
        ELSE CASE t.atype = "BoolType" ->
                    IF val.kind = "Bool"
                    THEN [rv |-> "CKR_OK", attr |-> from_bool(key, val.s[1] = 1)]
                    ELSE bad
               [] t.atype = "NumType" ->
                    IF val.kind = "Number"
                    THEN [rv |-> "CKR_OK", attr |-> from_ulong(key, val.s[1])]
                    ELSE bad
               [] t.atype = "StringType" ->
                    IF val.kind = "String"
                    THEN [rv |-> "CKR_OK", attr |-> from_string(key, val.s)]
                    ELSE bad
               [] t.atype = "BytesType" ->
                    IF val.kind # "String" THEN bad
                    ELSE IF ~d.ok
                    THEN [rv |-> "CKR_GENERAL_ERROR", attr |-> from_bytes(key, <<>>)]
                    ELSE [rv |-> "CKR_OK", attr |-> from_bytes(key, d.val)]
               [] t.atype = "DateType" ->
                    IF val.kind # "String" THEN bad
                    ELSE IF Len(val.s) = 0
                    THEN [rv |-> "CKR_OK", attr |-> from_date_bytes(key, <<>>)]
                    ELSE [rv |-> string_to_ck_date(val.s).rv,
                          attr |-> from_date_bytes(key, string_to_ck_date(val.s).val)]
               [] t.atype \in {"DenyType", "IgnoreType"} ->
                    [rv |-> "continue", attr |-> from_bytes(key, <<>>)]

\* the inner loop of prime_cache taking the uid from CKA_LABEL
RECURSIVE prime_object_uid_from_label(_, _, _, _)
prime_object_uid_from_label(jo, k, o, uid) ==
    IF k > Len(KeyOrder) THEN [rv |-> "CKR_OK", obj |-> o, uid |-> uid]
    ELSE IF KeyOrder[k] \notin DOMAIN jo
    THEN prime_object_uid_from_label(jo, k + 1, o, uid)
    ELSE LET key == KeyOrder[k]
             a == prime_attr(key, jo[key])
         IN  IF a.rv = "continue" THEN prime_object_uid_from_label(jo, k + 1, o, uid)
             ELSE IF a.rv # "CKR_OK" THEN [rv |-> a.rv, obj |-> o, uid |-> uid]
             ELSE prime_object_uid_from_label(jo, k + 1, set_attr(o, a.attr),
                      IF key = "CKA_LABEL" THEN <<jo[key].s>> ELSE uid)

\* for (key, val) in &jo.attributes: the keys from the k-th on, with the
\* object and the uid (<<>>: None, <<u>>: Some(u)) as they stand
RECURSIVE prime_object(_, _, _, _)
prime_object(jo, k, o, uid) ==
    IF k > Len(KeyOrder) THEN [rv |-> "CKR_OK", obj |-> o, uid |-> uid]
    ELSE IF KeyOrder[k] \notin DOMAIN jo THEN prime_object(jo, k + 1, o, uid)
    ELSE LET key == KeyOrder[k]
             a == prime_attr(key, jo[key])
         IN  IF a.rv = "continue" THEN prime_object(jo, k + 1, o, uid)
             ELSE IF a.rv # "CKR_OK" THEN [rv |-> a.rv, obj |-> o, uid |-> uid]
             ELSE IF key = "CKA_UNIQUE_ID" /\ jo[key].kind # "String"
             THEN [rv |-> "CKR_DEVICE_ERROR", obj |-> o, uid |-> uid]
             ELSE prime_object(jo, k + 1, set_attr(o, a.attr),
                               IF key = "CKA_UNIQUE_ID" THEN <<jo[key].s>> ELSE uid)

\* the in-memory cache: a map from uid to Object
cache_store(c, uid, o) ==
    [u \in DOMAIN c \cup {uid} |-> IF u = uid THEN o ELSE c[u]]
cache_fetch_by_uid(c, uid) ==
    IF uid \in DOMAIN c THEN [rv |-> "CKR_OK", obj |-> c[uid]]
    ELSE [rv |-> "CKR_OBJECT_HANDLE_INVALID", obj |-> NoObj]
cache_remove_by_uid(c, uid) ==
    IF DOMAIN c \ {uid} = {} THEN <<>> ELSE [u \in DOMAIN c \ {uid} |-> c[u]]
\* search(&[]): every object, in the order the map iterates in
cache_search(c, order) == [i \in DOMAIN order |-> c[order[i]]]

\* a prime_cache that passes over an object without uid
RECURSIVE prime_cache_skip_no_uid(_, _, _)
prime_cache_skip_no_uid(objects, i, c) ==
    IF i > Len(objects) THEN [rv |-> "CKR_OK", cache |-> c]
    ELSE LET r == prime_object(objects[i], 1, Object_new(0), <<>>)
         IN  IF r.rv # "CKR_OK" THEN [rv |-> r.rv, cache |-> c]
             ELSE IF r.uid = <<>> THEN prime_cache_skip_no_uid(objects, i + 1, c)
             ELSE prime_cache_skip_no_uid(objects, i + 1, cache_store(c, r.uid[1], r.obj))

\* JsonToken::prime_cache: the objects from the i-th on
RECURSIVE prime_cache(_, _, _)
prime_cache(objects, i, c) ==
    IF i > Len(objects) THEN [rv |-> "CKR_OK", cache |-> c]
    ELSE LET r == prime_object(objects[i], 1, Object_new(0), <<>>)
         IN  IF r.rv # "CKR_OK" THEN [rv |-> r.rv, cache |-> c]
             ELSE IF r.uid = <<>> THEN [rv |-> "CKR_DEVICE_ERROR", cache |-> c]
             ELSE prime_cache(objects, i + 1, cache_store(c, r.uid[1], r.obj))

\* from_cache that writes every object
from_cache_all(c, order) ==
    [i \in DOMAIN order |-> JsonObject_from_object(cache_search(c, order)[i])]

\* JsonToken::from_cache
from_cache(c, order) ==
    LET tok(o) == is_token(o)
        objs == SelectSeq(cache_search(c, order), tok)
    IN  [i \in DOMAIN objs |-> JsonObject_from_object(objs[i])]

\* JsonToken::save; io: what std::fs::write does ("ok", or it fails and
\* leaves the file as it was, or truncated)
save(token, filename, f, io) ==
    IF filename = "" \/ io = "unchanged" THEN [rv |-> "io error", file |-> f]
    ELSE IF io = "truncated"
    THEN [rv |-> "io error", file |-> [exists |-> TRUE, ok |-> FALSE, objects |-> <<>>]]
    ELSE [rv |-> "CKR_OK", file |-> [exists |-> TRUE, ok |-> TRUE, objects |-> token]]

\* JsonStorage::open after the assignment of filename: load and prime_cache
JsonStorage_open(c, f) ==
    IF ~f.exists THEN [rv |-> "CKR_CRYPTOKI_NOT_INITIALIZED", cache |-> c]
    ELSE IF ~f.ok THEN [rv |-> "parse error", cache |-> c]
    ELSE prime_cache(f.objects, 1, c)

JsonStorage_flush(c, filename, f, order, io) ==
    save(from_cache(c, order), filename, f, io)

(***************************************************************************)
(* JsonObject::from_object on the objects a token may hold                 *)
(***************************************************************************)
\* the attributes of the objects, one or more of every variant
JoAttrs ==
    {from_bool("CKA_TOKEN", TRUE), from_bool("CKA_TOKEN", FALSE),
     from_ulong("CKA_CLASS", CKO_SECRET_KEY), from_string("CKA_LABEL", <<108>>),
     from_bytes("CKA_VALUE", <<1, 2, 3>>),
     from_date_bytes("CKA_START_DATE", <<>>),
     from_date_bytes("CKA_START_DATE", <<50, 48, 50, 52, 48, 49, 51, 49>>),
     from_ignore("CKA_ALLOWED_MECHANISMS", <<1>>),
     [type |-> "CKA_WRAP_TEMPLATE", atype |-> "DenyType", value |-> <<>>]}

JoFromObject ==
    /\ obj # NoObj
    /\ olast = NoObjCall
    /\ olast' = [call |-> "from_object", jo |-> JsonObject_from_object(obj)]
    /\ UNCHANGED <<obj, opvars, stvars, hmvars, extvars>>

InitJo ==
    /\ obj \in {[handle |-> 1, attributes |-> attrs] : attrs \in SeqsUpTo(JoAttrs, MaxJoLen)}
    /\ olast = NoObjCall
    /\ OpUnused
    /\ StUnused
    /\ HmUnused
    /\ ExtUnused

NextJo == JoFromObject

SpecJo == InitJo /\ [][NextJo]_vars

(***************************************************************************)
(* The calls on a JsonStorage                                              *)
(***************************************************************************)
\* the orders a map over S can iterate in
Perms(S) ==
    {f \in [1..Cardinality(S) -> S] : \A i, j \in DOMAIN f : f[i] = f[j] => i = j}

\* the objects the token stores: data objects as create returns them,
\* each under its CKA_UNIQUE_ID
StoreObjects ==
    {[handle |-> 1,
      attributes |-> <<from_string("CKA_UNIQUE_ID", u), from_ulong("CKA_CLASS", CKO_DATA)>>
                     \o t \o <<from_string("CKA_APPLICATION", <<116>>),
                               from_bytes("CKA_VALUE", v)>>] :
        u \in UUIDs,
        t \in Opt({from_bool("CKA_TOKEN", b) : b \in BOOLEAN}),
        v \in {<<1, 2, 3>>, <<255, 16>>}}
UidOf(o) == o.attributes[1].value

\* the token files found at start: none, an empty token, a token of one
\* object, one whose second object has no CKA_UNIQUE_ID, one with a name
\* that is no attribute, one whose CKA_VALUE is no base64, one whose
\* CKA_TOKEN is a string, one whose CKA_START_DATE is no date, one with a
\* date and a null entry of a Deny attribute
GoodJsonObject ==
    [key \in {"CKA_UNIQUE_ID", "CKA_CLASS", "CKA_TOKEN", "CKA_LABEL", "CKA_VALUE"} |->
        CASE key = "CKA_UNIQUE_ID" -> JString(<<97>>)
          [] key = "CKA_LABEL" -> JString(<<108>>)
          [] key = "CKA_CLASS" -> JNumber(CKO_DATA)
          [] key = "CKA_TOKEN" -> JBool(TRUE)
          [] OTHER -> JString(<<66, 119, 61, 61>>)]
InitFiles ==
    {NoFile} \cup
    {[exists |-> TRUE, ok |-> TRUE, objects |-> objs] :
        objs \in { <<>>, <<GoodJsonObject>>,
                   <<GoodJsonObject, [key \in {"CKA_TOKEN"} |-> JBool(TRUE)]>>,
                   <<[key \in {"CKA_UNIQUE_ID", "CKA_BOGUS"} |-> JString(<<98>>)]>>,
                   <<[key \in {"CKA_UNIQUE_ID", "CKA_VALUE"} |-> JString(<<98>>)]>>,
                   <<[key \in {"CKA_UNIQUE_ID", "CKA_TOKEN"} |-> JString(<<98>>)]>>,
                   <<[key \in {"CKA_UNIQUE_ID", "CKA_START_DATE"} |-> JString(<<98>>)]>>,
                   <<[key \in {"CKA_UNIQUE_ID", "CKA_START_DATE", "CKA_WRAP_TEMPLATE"} |->
                        CASE key = "CKA_UNIQUE_ID" -> JString(<<98>>)
                          [] key = "CKA_START_DATE" ->
                                JString(<<50, 48, 50, 52, 48, 49, 51, 49>>)
                          [] OTHER -> JNull]>> }}

\* the last successful store of a token object, followed up to the fetch
\* from a storage that opened the file it wrote
NoTrip == [stage |-> "none", uid |-> <<>>, obj |-> NoObj]

\* json()
JsonNew ==
    /\ cache' = <<>>
    /\ fname' = ""
    /\ slast' = [call |-> "json", uid |-> <<>>, obj |-> NoObj, rv |-> "CKR_OK",
                 trip |-> IF slast.call # "none" /\ slast.trip.stage = "stored"
                          THEN [slast.trip EXCEPT !.stage = "new"] ELSE NoTrip]
    /\ UNCHANGED <<file, opvars, objvars, hmvars, extvars>>

JsonOpen ==
    /\ slast.call # "none"
    /\ LET r == JsonStorage_open(cache, file)
       IN  /\ cache' = r.cache
           /\ slast' = [call |-> "open", uid |-> <<>>, obj |-> NoObj, rv |-> r.rv,
                        trip |-> IF slast.trip.stage = "new"
                                 THEN [slast.trip EXCEPT !.stage = "opened"]
                                 ELSE NoTrip]
    /\ fname' = "token"
    /\ UNCHANGED <<file, opvars, objvars, hmvars, extvars>>

JsonFlush ==
    /\ slast.call # "none"
    /\ \E order \in Perms(DOMAIN cache), io \in {"ok", "unchanged", "truncated"} :
          LET r == JsonStorage_flush(cache, fname, file, order, io)
          IN  /\ file' = r.file
              /\ slast' = [call |-> "flush", uid |-> <<>>, obj |-> NoObj, rv |-> r.rv,
                           trip |-> NoTrip]
    /\ UNCHANGED <<cache, fname, opvars, objvars, hmvars, extvars>>

JsonFetch ==
    /\ slast.call # "none"
    /\ \E uid \in UUIDs :
          LET r == cache_fetch_by_uid(cache, uid)
          IN  slast' = [call |-> "fetch_by_uid", uid |-> uid, obj |-> r.obj,
                        rv |-> r.rv,
                        trip |-> IF slast.trip.stage = "opened" /\ slast.rv = "CKR_OK"
                                 THEN slast.trip ELSE NoTrip]
    /\ UNCHANGED <<cache, fname, file, opvars, objvars, hmvars, extvars>>

JsonStore ==
    /\ slast.call # "none"
    /\ \E o \in StoreObjects :
          LET c1 == cache_store(cache, UidOf(o), o)
          IN  \E order \in Perms(DOMAIN c1), io \in {"ok", "unchanged", "truncated"} :
                 LET r == JsonStorage_flush(c1, fname, file, order, io)
                 IN  /\ cache' = c1
                     /\ file' = r.file
                     /\ slast' = [call |-> "store", uid |-> UidOf(o), obj |-> o,
                                  rv |-> r.rv,
                                  trip |-> IF r.rv = "CKR_OK" /\ is_token(o)
                                           THEN [stage |-> "stored", uid |-> UidOf(o),
                                                 obj |-> o]
                                           ELSE NoTrip]
    /\ UNCHANGED <<fname, opvars, objvars, hmvars, extvars>>

\* the cache may refuse a uid it does not hold
JsonRemove ==
    /\ slast.call # "none"
    /\ \E uid \in UUIDs, refuse \in BOOLEAN :
          IF uid \notin DOMAIN cache /\ refuse
          THEN /\ slast' = [call |-> "remove_by_uid", uid |-> uid, obj |-> NoObj,
                            rv |-> "CKR_OBJECT_HANDLE_INVALID", trip |-> NoTrip]
               /\ UNCHANGED <<cache, file>>
          ELSE LET c1 == cache_remove_by_uid(cache, uid)
               IN  \E order \in Perms(DOMAIN c1), io \in {"ok", "unchanged", "truncated"} :
                      LET r == JsonStorage_flush(c1, fname, file, order, io)
                      IN  /\ cache' = c1
                          /\ file' = r.file
                          /\ slast' = [call |-> "remove_by_uid", uid |-> uid,
                                       obj |-> NoObj, rv |-> r.rv, trip |-> NoTrip]
    /\ UNCHANGED <<fname, opvars, objvars, hmvars, extvars>>

InitJson ==
    /\ cache = <<>>
    /\ fname = ""
    /\ file \in InitFiles
    /\ slast = NoStCall
    /\ OpUnused
    /\ ObjUnused
    /\ HmUnused
    /\ ExtUnused

NextJson == JsonNew \/ JsonOpen \/ JsonFlush \/ JsonFetch \/ JsonStore \/ JsonRemove

SpecJson == InitJson /\ [][NextJson]_vars

(***************************************************************************)
(* HMACOperation (hmac.rs)                                                 *)
(***************************************************************************)
HMACOperation_init(kind, mech, outputlen) ==
    [impl |-> "HMAC", kind |-> kind, mech |-> mech,
     max_input |-> 0, output_len |-> outputlen, sigctx |-> FALSE,
     in_use |-> FALSE, finalized |-> FALSE]

\* inner digest_update: the digest can fail
HMACOperation_update(o, pf) ==
    IF "update" \in pf THEN "CKR_DEVICE_ERROR" ELSE "CKR_OK"

\* inner digest_final, reset, digest_update x2, digest_final
HMACOperation_finalize(o, pf) ==
    IF "final" \in pf THEN "CKR_DEVICE_ERROR" ELSE "CKR_OK"

\* sign_update that forgets to look at finalized
HMACOperation_sign_update_unchecked(o, pf) ==
    LET o1 == [o EXCEPT !.in_use = TRUE]
    IN  Res(o1, HMACOperation_update(o1, pf))

HMACOperation_sign_update(o, pf) ==
    IF o.finalized THEN Res(o, "CKR_OPERATION_NOT_INITIALIZED")
    ELSE LET o1 == [o EXCEPT !.in_use = TRUE]
         IN  Res(o1, HMACOperation_update(o1, pf))

\* sign_final that forgets to look at in_use
HMACOperation_sign_final_from_fresh(o, siglen, pf) ==
    IF o.finalized THEN Res(o, "CKR_OPERATION_NOT_INITIALIZED")
    ELSE LET o1 == [o EXCEPT !.finalized = TRUE]
         IN  IF siglen # o1.output_len THEN Res(o1, "CKR_GENERAL_ERROR")
             ELSE Res(o1, HMACOperation_finalize(o1, pf))

HMACOperation_sign_final(o, siglen, pf) ==
    IF ~o.in_use THEN Res(o, "CKR_OPERATION_NOT_INITIALIZED")
    ELSE IF o.finalized THEN Res(o, "CKR_OPERATION_NOT_INITIALIZED")
    ELSE LET o1 == [o EXCEPT !.finalized = TRUE]
         IN  IF siglen # o1.output_len THEN Res(o1, "CKR_GENERAL_ERROR")
             ELSE Res(o1, HMACOperation_finalize(o1, pf))

HMACOperation_sign(o, siglen, pf) ==
    IF o.in_use THEN Res(o, "CKR_OPERATION_NOT_INITIALIZED")
    ELSE LET u == HMACOperation_sign_update(o, pf)
         IN  IF u.rv # "CKR_OK"
             THEN Res([u.op EXCEPT !.finalized = TRUE], u.rv)
             ELSE HMACOperation_sign_final(u.op, siglen, pf)

HMACOperation_verify_update(o, pf) ==
    IF o.finalized THEN Res(o, "CKR_OPERATION_NOT_INITIALIZED")
    ELSE LET o1 == [o EXCEPT !.in_use = TRUE]
         IN  Res(o1, HMACOperation_update(o1, pf))

\* sigok: the computed MAC is byte-equal to the signature given
HMACOperation_verify_final(o, siglen, sigok, pf) ==
    IF ~o.in_use THEN Res(o, "CKR_OPERATION_NOT_INITIALIZED")
    ELSE IF o.finalized THEN Res(o, "CKR_OPERATION_NOT_INITIALIZED")
    ELSE LET o1 == [o EXCEPT !.finalized = TRUE]
         IN  IF siglen # o1.output_len THEN Res(o1, "CKR_GENERAL_ERROR")
             ELSE IF HMACOperation_finalize(o1, pf) # "CKR_OK"
                  THEN Res(o1, HMACOperation_finalize(o1, pf))
             ELSE IF ~sigok THEN Res(o1, "CKR_SIGNATURE_INVALID")
             ELSE Res(o1, "CKR_OK")

HMACOperation_verify(o, siglen, sigok, pf) ==
    IF o.in_use THEN Res(o, "CKR_OPERATION_NOT_INITIALIZED")
    ELSE LET u == HMACOperation_verify_update(o, pf)
         IN  IF u.rv # "CKR_OK"
             THEN Res([u.op EXCEPT !.finalized = TRUE], u.rv)
             ELSE HMACOperation_verify_final(u.op, siglen, sigok, pf)

(***************************************************************************)
(* RsaPKCSOperation (fips/rsa.rs)                                          *)
(***************************************************************************)
\* a gate that takes ulMaxKeySize = 0 for a limit too
KeySizeInRange_zero_is_limit(modlen, info) ==
    LET modulus_bits == modlen * 8
    IN  ~(modulus_bits < info.ulMinKeySize \/ modulus_bits > info.ulMaxKeySize)

\* the key-size gate every constructor applies to 8 * |MODULUS|
KeySizeInRange(modlen, info) ==
    LET modulus_bits == modlen * 8
    IN  ~(modulus_bits < info.ulMinKeySize
          \/ (info.ulMaxKeySize # 0 /\ modulus_bits > info.ulMaxKeySize))

RsaOp(kind, mech, max_input, output_len, sigctx) ==
    [impl |-> "RSA", kind |-> kind, mech |-> mech,
     max_input |-> max_input, output_len |-> output_len, sigctx |-> sigctx,
     in_use |-> FALSE, finalized |-> FALSE]

get_digest_name(mech) ==
    IF mech \in RsaMechs THEN "CKR_OK" ELSE "CKR_GENERAL_ERROR"

\* "setup" in pf: object_to_rsa_public_key fails
RsaPKCSOperation_encrypt_new(mech, modlen, info, pf) ==
    IF ~KeySizeInRange(modlen, info) THEN Res(NoOp, "CKR_KEY_SIZE_RANGE")
    ELSE IF mech # "CKM_RSA_PKCS" THEN Res(NoOp, "CKR_MECHANISM_INVALID")
    ELSE IF "setup" \in pf THEN Res(NoOp, "CKR_DEVICE_ERROR")
    ELSE Res(RsaOp("Encryption", mech, modlen - PKCS1Overhead, modlen, FALSE), "CKR_OK")

\* "setup" in pf: object_to_rsa_public_key or object_to_rsa_private_key fails
RsaPKCSOperation_decrypt_new(mech, modlen, info, pf) ==
    IF ~KeySizeInRange(modlen, info) THEN Res(NoOp, "CKR_KEY_SIZE_RANGE")
    ELSE IF mech # "CKM_RSA_PKCS" THEN Res(NoOp, "CKR_MECHANISM_INVALID")
    ELSE IF "setup" \in pf THEN Res(NoOp, "CKR_DEVICE_ERROR")
    ELSE Res(RsaOp("Decryption", mech, modlen, modlen - PKCS1Overhead, FALSE), "CKR_OK")

\* "setup" in pf: a key conversion or ProviderSignatureCtx::new fails
RsaPKCSOperation_sign_new(mech, modlen, info, pf) ==
    IF ~KeySizeInRange(modlen, info) THEN Res(NoOp, "CKR_KEY_SIZE_RANGE")
    ELSE IF "setup" \in pf THEN Res(NoOp, "CKR_DEVICE_ERROR")
    ELSE IF get_digest_name(mech) # "CKR_OK" THEN Res(NoOp, get_digest_name(mech))
    ELSE Res(RsaOp("Sign", mech,
                   IF mech = "CKM_RSA_PKCS" THEN modlen - PKCS1Overhead ELSE 0,
                   modlen, mech # "CKM_RSA_PKCS"), "CKR_OK")

RsaPKCSOperation_verify_new(mech, modlen, info, pf) ==
    IF ~KeySizeInRange(modlen, info) THEN Res(NoOp, "CKR_KEY_SIZE_RANGE")
    ELSE IF "setup" \in pf THEN Res(NoOp, "CKR_DEVICE_ERROR")
    ELSE IF get_digest_name(mech) # "CKR_OK" THEN Res(NoOp, get_digest_name(mech))
    ELSE Res(RsaOp("Verify", mech,
                   IF mech = "CKM_RSA_PKCS" THEN modlen - PKCS1Overhead ELSE 0,
                   modlen, mech # "CKM_RSA_PKCS"), "CKR_OK")

\* encrypt that sets finalized before it looks at the output pointer
RsaPKCSOperation_encrypt_early_final(o, nullbuf, buflen, pf) ==
    IF o.in_use THEN Res(o, "CKR_OPERATION_NOT_INITIALIZED")
    ELSE IF o.finalized THEN Res(o, "CKR_OPERATION_NOT_INITIALIZED")
    ELSE IF "setup" \in pf THEN Res(o, "CKR_DEVICE_ERROR")
    ELSE LET outlen == o.output_len
             o1 == [o EXCEPT !.finalized = TRUE]
         IN  IF nullbuf THEN ResLen(o1, "CKR_OK", outlen)
             ELSE IF buflen < outlen THEN Res(o1, "CKR_BUFFER_TOO_SMALL")
             ELSE IF "final" \in pf THEN Res(o1, "CKR_DEVICE_ERROR")
             ELSE ResLen(o1, "CKR_OK", outlen)

\* "setup" in pf: EvpPkeyCtx::from_ptr, EVP_PKEY_encrypt_init, EVP_PKEY_CTX_set_params
\* or the size query fails; "final" in pf: the encryption itself fails.
\* The provider's size query answers the modulus length.
RsaPKCSOperation_encrypt(o, nullbuf, buflen, pf) ==
    IF o.in_use THEN Res(o, "CKR_OPERATION_NOT_INITIALIZED")
    ELSE IF o.finalized THEN Res(o, "CKR_OPERATION_NOT_INITIALIZED")
    ELSE IF "setup" \in pf THEN Res(o, "CKR_DEVICE_ERROR")
    ELSE LET outlen == o.output_len
         IN  IF nullbuf THEN ResLen(o, "CKR_OK", outlen)
             ELSE IF buflen < outlen THEN Res(o, "CKR_BUFFER_TOO_SMALL")
             ELSE LET o1 == [o EXCEPT !.finalized = TRUE]
                  IN  IF "final" \in pf THEN Res(o1, "CKR_DEVICE_ERROR")
                      ELSE ResLen(o1, "CKR_OK", outlen)

RsaPKCSOperation_encrypt_update(o) ==
    Res([o EXCEPT !.finalized = TRUE], "CKR_OPERATION_NOT_INITIALIZED")

RsaPKCSOperation_encrypt_final(o) ==
    Res([o EXCEPT !.finalized = TRUE], "CKR_OPERATION_NOT_INITIALIZED")

\* As encrypt; the size query answers the modulus length (max_input of a
\* decryption), the decryption writes the plaintext length plen.
RsaPKCSOperation_decrypt(o, nullbuf, buflen, plen, pf) ==
    IF o.in_use THEN Res(o, "CKR_OPERATION_NOT_INITIALIZED")
    ELSE IF o.finalized THEN Res(o, "CKR_OPERATION_NOT_INITIALIZED")
    ELSE IF "setup" \in pf THEN Res(o, "CKR_DEVICE_ERROR")
    ELSE LET outlen == o.max_input
         IN  IF nullbuf THEN ResLen(o, "CKR_OK", outlen)
             ELSE IF buflen < outlen THEN Res(o, "CKR_BUFFER_TOO_SMALL")
             ELSE LET o1 == [o EXCEPT !.finalized = TRUE]
                  IN  IF "final" \in pf THEN Res(o1, "CKR_DEVICE_ERROR")
                      ELSE ResLen(o1, "CKR_OK", plen)

RsaPKCSOperation_decrypt_update(o) ==
    Res([o EXCEPT !.finalized = TRUE], "CKR_OPERATION_NOT_INITIALIZED")

RsaPKCSOperation_decrypt_final(o) ==
    Res([o EXCEPT !.finalized = TRUE], "CKR_OPERATION_NOT_INITIALIZED")

\* sign_update that does not reject the single-shot mechanism
RsaPKCSOperation_sign_update_any_mech(o, pf) ==
    IF o.finalized THEN Res(o, "CKR_OPERATION_NOT_INITIALIZED")
    ELSE LET o1 == [o EXCEPT !.in_use = TRUE]
         IN  IF ~o.in_use /\ "setup" \in pf THEN Res(o1, "CKR_DEVICE_ERROR")
             ELSE IF "update" \in pf THEN Res(o1, "CKR_DEVICE_ERROR")
             ELSE Res(o1, "CKR_OK")

\* self.sigctx.as_mut().unwrap(): a panic when the operation has no sigctx
\* "setup" in pf: digest_sign_init fails; "update" in pf: digest_sign_update fails
RsaPKCSOperation_sign_update(o, pf) ==
    IF o.finalized THEN Res(o, "CKR_OPERATION_NOT_INITIALIZED")
    ELSE IF ~o.in_use /\ o.mech = "CKM_RSA_PKCS"
         THEN Res(o, "CKR_OPERATION_NOT_INITIALIZED")
    ELSE LET o1 == [o EXCEPT !.in_use = TRUE]
         IN  IF ~o1.sigctx THEN Res(o1, "panic")
             ELSE IF ~o.in_use /\ "setup" \in pf THEN Res(o1, "CKR_DEVICE_ERROR")
             ELSE IF "update" \in pf THEN Res(o1, "CKR_DEVICE_ERROR")
             ELSE Res(o1, "CKR_OK")

\* "final" in pf: digest_sign_final fails
RsaPKCSOperation_sign_final(o, pf) ==
    IF ~o.in_use THEN Res(o, "CKR_OPERATION_NOT_INITIALIZED")
    ELSE IF o.finalized THEN Res(o, "CKR_OPERATION_NOT_INITIALIZED")
    ELSE LET o1 == [o EXCEPT !.finalized = TRUE]
         IN  IF ~o1.sigctx THEN Res(o1, "panic")
             ELSE IF "final" \in pf THEN Res(o1, "CKR_DEVICE_ERROR")
             ELSE Res(o1, "CKR_OK")

\* RSA_PKCS: "setup" in pf: the context, EVP_PKEY_sign_init, set_params or the
\* size query fails; "final" in pf: EVP_PKEY_sign fails.  The provider's
\* signature length is the modulus length.
RsaPKCSOperation_sign(o, datalen, siglen, pf) ==
    IF o.in_use THEN Res(o, "CKR_OPERATION_NOT_INITIALIZED")
    ELSE IF o.finalized THEN Res(o, "CKR_OPERATION_NOT_INITIALIZED")
    ELSE IF o.mech = "CKM_RSA_PKCS"
         THEN LET o1 == [o EXCEPT !.finalized = TRUE]
              IN  IF datalen > o1.max_input THEN Res(o1, "CKR_DATA_LEN_RANGE")
                  ELSE IF siglen # o1.output_len THEN Res(o1, "CKR_GENERAL_ERROR")
                  ELSE IF "setup" \in pf THEN Res(o1, "CKR_DEVICE_ERROR")
                  ELSE IF "final" \in pf THEN Res(o1, "CKR_DEVICE_ERROR")
                  ELSE Res(o1, "CKR_OK")
    ELSE LET u == RsaPKCSOperation_sign_update(o, pf)
         IN  IF u.rv # "CKR_OK" THEN u
             ELSE RsaPKCSOperation_sign_final(u.op, pf)

\* "setup" in pf: digest_verify_init fails; "update" in pf: digest_verify_update fails
RsaPKCSOperation_verify_update(o, pf) ==
    IF o.finalized THEN Res(o, "CKR_OPERATION_NOT_INITIALIZED")
    ELSE IF ~o.in_use /\ o.mech = "CKM_RSA_PKCS"
         THEN Res(o, "CKR_OPERATION_NOT_INITIALIZED")
    ELSE LET o1 == [o EXCEPT !.in_use = TRUE]
         IN  IF ~o1.sigctx THEN Res(o1, "panic")
             ELSE IF ~o.in_use /\ "setup" \in pf THEN Res(o1, "CKR_DEVICE_ERROR")
             ELSE IF "update" \in pf THEN Res(o1, "CKR_DEVICE_ERROR")
             ELSE Res(o1, "CKR_OK")

\* digest_verify_final: "final" in pf: the provider fails; ~sigok: it reports
\* a signature that does not match
RsaPKCSOperation_verify_final(o, sigok, pf) ==
    IF ~o.in_use THEN Res(o, "CKR_OPERATION_NOT_INITIALIZED")
    ELSE IF o.finalized THEN Res(o, "CKR_OPERATION_NOT_INITIALIZED")
    ELSE LET o1 == [o EXCEPT !.finalized = TRUE]
         IN  IF ~o1.sigctx THEN Res(o1, "panic")
             ELSE IF "final" \in pf THEN Res(o1, "CKR_DEVICE_ERROR")
             ELSE IF ~sigok THEN Res(o1, "CKR_SIGNATURE_INVALID")
             ELSE Res(o1, "CKR_OK")

\* RSA_PKCS: the last provider call is EVP_PKEY_sign on the public key
\* context; "final" in pf: it fails
\* the lengths an operation reports
RsaPKCSOperation_encryption_len(o) ==
    IF o.mech = "CKM_RSA_PKCS" THEN ResLen(o, "CKR_OK", o.output_len)
    ELSE Res(o, "CKR_GENERAL_ERROR")
RsaPKCSOperation_decryption_len(o) ==
    IF o.mech = "CKM_RSA_PKCS" THEN ResLen(o, "CKR_OK", o.output_len)
    ELSE Res(o, "CKR_GENERAL_ERROR")
RsaPKCSOperation_signature_len(o) == ResLen(o, "CKR_OK", o.output_len)

\* a verify that goes to the provider before it looks at the length of the data
RsaPKCSOperation_verify_provider_first(o, datalen, siglen, sigok, pf) ==
    IF o.in_use THEN Res(o, "CKR_OPERATION_NOT_INITIALIZED")
    ELSE IF o.finalized THEN Res(o, "CKR_OPERATION_NOT_INITIALIZED")
    ELSE IF o.mech = "CKM_RSA_PKCS"
         THEN LET o1 == [o EXCEPT !.finalized = TRUE]
              IN  IF "setup" \in pf THEN Res(o1, "CKR_DEVICE_ERROR")
                  ELSE IF datalen > o1.max_input THEN Res(o1, "CKR_DATA_LEN_RANGE")
                  ELSE IF siglen # o1.output_len THEN Res(o1, "CKR_GENERAL_ERROR")
                  ELSE IF "final" \in pf THEN Res(o1, "CKR_DEVICE_ERROR")
                  ELSE Res(o1, "CKR_OK")
    ELSE Res([o EXCEPT !.finalized = TRUE], "CKR_DEVICE_ERROR")

RsaPKCSOperation_verify(o, datalen, siglen, sigok, pf) ==
    IF o.in_use THEN Res(o, "CKR_OPERATION_NOT_INITIALIZED")
    ELSE IF o.finalized THEN Res(o, "CKR_OPERATION_NOT_INITIALIZED")
    ELSE IF o.mech = "CKM_RSA_PKCS"
         THEN LET o1 == [o EXCEPT !.finalized = TRUE]
              IN  IF datalen > o1.max_input THEN Res(o1, "CKR_DATA_LEN_RANGE")
                  ELSE IF siglen # o1.output_len THEN Res(o1, "CKR_GENERAL_ERROR")
                  ELSE IF "setup" \in pf THEN Res(o1, "CKR_DEVICE_ERROR")
                  ELSE IF "final" \in pf THEN Res(o1, "CKR_DEVICE_ERROR")
                  ELSE Res(o1, "CKR_OK")
    ELSE LET u == RsaPKCSOperation_verify_update(o, pf)
         IN  IF u.rv # "CKR_OK" THEN u
             ELSE RsaPKCSOperation_verify_final(u.op, sigok, pf)

(***************************************************************************)
(* HMACMechanism constructors (hmac.rs)                                    *)
(***************************************************************************)
\* a length check that forgets the lower limit
check_and_fetch_param_no_min(paramlen, genlen, min, max) ==
    IF min = max
    THEN IF paramlen # 0 THEN [rv |-> "CKR_MECHANISM_PARAM_INVALID", len |-> 0]
         ELSE [rv |-> "CKR_OK", len |-> max]
    ELSE IF paramlen # 1 THEN [rv |-> "CKR_MECHANISM_PARAM_INVALID", len |-> 0]
    ELSE IF genlen > max
         THEN [rv |-> "CKR_MECHANISM_PARAM_INVALID", len |-> 0]
    ELSE [rv |-> "CKR_OK", len |-> genlen]

\* paramlen: ulParameterLen in units of CK_ULONG (0: no parameter, 1: one
\* CK_ULONG); genlen: the CK_ULONG the parameter points to
check_and_fetch_param(paramlen, genlen, min, max) ==
    IF min = max
    THEN IF paramlen # 0 THEN [rv |-> "CKR_MECHANISM_PARAM_INVALID", len |-> 0]
         ELSE [rv |-> "CKR_OK", len |-> max]
    ELSE IF paramlen # 1 THEN [rv |-> "CKR_MECHANISM_PARAM_INVALID", len |-> 0]
    ELSE IF genlen < min \/ genlen > max
         THEN [rv |-> "CKR_MECHANISM_PARAM_INVALID", len |-> 0]
    ELSE [rv |-> "CKR_OK", len |-> genlen]

\* the registered HMAC mechanisms: minlen = 1 for the _GENERAL variant,
\* minlen = maxlen = hash length otherwise; MaxOutputLen stands for hashlen()
HMACMechanism_minlen(mech) ==
    IF mech = "CKM_SHA256_HMAC_GENERAL" THEN 1 ELSE MaxOutputLen

\* sign_new / verify_new; "setup" in pf: HMACOperation::init fails in the digest
HMACMechanism_new(kind, mech, paramlen, genlen, pf) ==
    LET p == check_and_fetch_param(paramlen, genlen,
                                   HMACMechanism_minlen(mech), MaxOutputLen)
    IN  IF p.rv # "CKR_OK" THEN Res(NoOp, p.rv)
        ELSE IF "setup" \in pf THEN Res(NoOp, "CKR_DEVICE_ERROR")
        ELSE Res(HMACOperation_init(kind, mech, p.len), "CKR_OK")

(***************************************************************************)
(* RSA key import (fips/rsa.rs): object_to_rsa_public_key and              *)
(* object_to_rsa_private_key                                               *)
(***************************************************************************)
\* the key components with the temporary buffer each is copied to
RsaPublicComponents ==
    << [id |-> "CKA_MODULUS", vec |-> "nvec"],
       [id |-> "CKA_PUBLIC_EXPONENT", vec |-> "evec"] >>
RsaPrivateComponents ==
    RsaPublicComponents \o << [id |-> "CKA_PRIVATE_EXPONENT", vec |-> "dvec"] >>
RsaCrtComponents ==
    << [id |-> "CKA_PRIME_1", vec |-> "pvec"],
       [id |-> "CKA_PRIME_2", vec |-> "qvec"],
       [id |-> "CKA_EXPONENT_1", vec |-> "avec"],
       [id |-> "CKA_EXPONENT_2", vec |-> "bvec"],
       [id |-> "CKA_COEFFICIENT", vec |-> "cvec"] >>

\* the buffers as Vec::new() leaves them
NewVecs(comps) == [v \in {comps[i].vec : i \in DOMAIN comps} |-> <<>>]

\* the octets in the other order: the native form of a BN
RECURSIVE Reverse(_)
Reverse(s) == IF s = <<>> THEN <<>> ELSE Reverse(Tail(s)) \o <<Head(s)>>

\* make_bn!: the buffer resized and filled with the component, or the
\* return of CKR_DEVICE_ERROR it makes; bnfail: the component BN_bin2bn
\* returns null for
make_bn(key, c, vecs, bnfail) ==
    LET x == get_attr_as_bytes(key, c.id)
    IN  IF x.rv # "CKR_OK" THEN [rv |-> "CKR_DEVICE_ERROR", vecs |-> vecs]
        ELSE IF bnfail = c.id THEN [rv |-> "CKR_DEVICE_ERROR", vecs |-> vecs]
        ELSE [rv |-> "CKR_OK", vecs |-> [vecs EXCEPT ![c.vec] = Reverse(x.val)]]

\* the make_bn! of the components from the i-th on, up to the first return
RECURSIVE make_bns(_, _, _, _, _)
make_bns(key, comps, i, vecs, bnfail) ==
    IF i > Len(comps) THEN [rv |-> "CKR_OK", vecs |-> vecs]
    ELSE LET r == make_bn(key, comps[i], vecs, bnfail)
         IN  IF r.rv # "CKR_OK" THEN r
             ELSE make_bns(key, comps, i + 1, r.vecs, bnfail)

\* Vec::zeroize on every buffer: what the memory of each holds afterwards
zeroize(vecs) == [v \in DOMAIN vecs |-> [k \in DOMAIN vecs[v] |-> 0]]

\* the steps after the parameters are built; step: the provider call that
\* fails ("none": none does)
ProviderImportSteps == {"EVP_PKEY_CTX_new_from_name", "EVP_PKEY_fromdata_init",
                        "EVP_PKEY_fromdata", "EvpPkey::from_ptr"}
rsa_fromdata(r, step) ==
    IF r.rv # "CKR_OK" THEN r
    ELSE IF step \in {"EVP_PKEY_CTX_new_from_name", "EVP_PKEY_fromdata_init",
                      "EVP_PKEY_fromdata"}
    THEN [rv |-> "CKR_DEVICE_ERROR", vecs |-> r.vecs]
    ELSE [rv |-> IF step = "EvpPkey::from_ptr" THEN "CKR_DEVICE_ERROR" ELSE "CKR_OK",
          vecs |-> zeroize(r.vecs)]

\* step, bnfail: the provider call, or the BN_bin2bn, that fails
object_to_rsa_public_key(key, step, bnfail) ==
    rsa_fromdata(make_bns(key, RsaPublicComponents, 1, NewVecs(RsaPublicComponents),
                          bnfail), step)

object_to_rsa_private_key(key, step, bnfail) ==
    LET all == RsaPrivateComponents \o RsaCrtComponents
        r == make_bns(key, RsaPrivateComponents, 1, NewVecs(all), bnfail)
        crt == \A i \in DOMAIN RsaCrtComponents :
                  Positions(key.attributes, RsaCrtComponents[i].id) # {}
    IN  IF r.rv # "CKR_OK" THEN r
        ELSE IF crt THEN rsa_fromdata(make_bns(key, RsaCrtComponents, 1, r.vecs, bnfail), step)
        ELSE rsa_fromdata(r, step)

(***************************************************************************)
(* The key imports                                                         *)
(***************************************************************************)
\* the RSA key objects: any of the components, the k-th of k + 1 octets
RsaComponentIds ==
    [i \in 1..8 |-> (RsaPrivateComponents \o RsaCrtComponents)[i].id]
RsaKeyObject(S) ==
    LET ids == SelectSeq(RsaComponentIds, LAMBDA id : id \in S)
        pos(id) == CHOOSE i \in 1..8 : RsaComponentIds[i] = id
    IN  [handle |-> 1,
         attributes |-> [k \in DOMAIN ids |->
                            from_bytes(ids[k], [j \in 1..(pos(ids[k]) + 1) |-> 16 * pos(ids[k]) + j])]]
\* a full key, and the keys that lack some components
RsaKeyObjects ==
    {RsaKeyObject(S) :
        S \in {{RsaComponentIds[i] : i \in 1..8} \ M :
                  M \in SUBSET {"CKA_MODULUS", "CKA_PUBLIC_EXPONENT", "CKA_PRIVATE_EXPONENT",
                                "CKA_PRIME_2", "CKA_COEFFICIENT"}}}

ImportPublic ==
    /\ imp = NoImp
    /\ \E key \in RsaKeyObjects, step \in ProviderImportSteps \cup {"none"},
          bnfail \in {"none", "CKA_PUBLIC_EXPONENT"} :
          LET r == object_to_rsa_public_key(key, step, bnfail)
          IN  imp' = [call |-> "object_to_rsa_public_key", key |-> key, step |-> step,
                      bnfail |-> bnfail, rv |-> r.rv, vecs |-> r.vecs]
    /\ UNCHANGED <<corevars, ec, mechs, rng, lib>>

ImportPrivate ==
    /\ imp = NoImp
    /\ \E key \in RsaKeyObjects, step \in ProviderImportSteps \cup {"none"},
          bnfail \in {"none", "CKA_PRIVATE_EXPONENT", "CKA_EXPONENT_1"} :
          LET r == object_to_rsa_private_key(key, step, bnfail)
          IN  imp' = [call |-> "object_to_rsa_private_key", key |-> key, step |-> step,
                      bnfail |-> bnfail, rv |-> r.rv, vecs |-> r.vecs]
    /\ UNCHANGED <<corevars, ec, mechs, rng, lib>>

\* the buffers are freed
ImportReturn ==
    /\ imp # NoImp
    /\ imp' = NoImp
    /\ UNCHANGED <<corevars, ec, mechs, rng, lib>>

InitImport ==
    /\ imp = NoImp
    /\ OpUnused
    /\ ObjUnused
    /\ StUnused
    /\ HmUnused
    /\ EcUnused
    /\ MechUnused
    /\ LibUnused
    /\ AuxUnused

NextImport == ImportPublic \/ ImportPrivate \/ ImportReturn

SpecImport == InitImport /\ [][NextImport]_vars

(***************************************************************************)
(* The hash-state wrappers SHA1state, SHA256state, SHA384state and         *)
(* SHA512state (cryptography.rs): a pointer s to a native streaming state  *)
(***************************************************************************)
\* native states are named 1, 2, ... in the order of their creation
HashStates == {"SHA1state", "SHA256state", "SHA384state", "SHA512state"}

\* Hacl_Streaming_*_create_in: a native state that did not exist before
create_in(h) == [h EXCEPT !.made = @ + 1, !.live = @ \cup {h.made + 1}]

\* Hacl_Streaming_*_free
native_free(h, p) == [h EXCEPT !.live = @ \ {p}, !.freed = Append(@, p)]

HashState_new(kind) == [NoHs EXCEPT !.some = TRUE, !.kind = kind, !.s = Null]

HashState_init(h) ==
    LET c == create_in(h)
    IN  [c EXCEPT !.s = c.made]

HashState_get_state(h) ==
    LET i == IF h.s = Null THEN HashState_init(h) ELSE h
    IN  [i EXCEPT !.ret = i.s]

HashState_drop(h) ==
    IF h.s # Null
    THEN [native_free(h, h.s) EXCEPT !.s = Null]
    ELSE h

(***************************************************************************)
(* The calls on a hash-state wrapper                                       *)
(***************************************************************************)
HsNew ==
    /\ ~hs.some
    /\ \E kind \in HashStates :
          hs' = [HashState_new(kind) EXCEPT !.call = "new"]
    /\ UNCHANGED <<op, last, obj, olast, cache, fname, file, slast, hm, hlast,
                   ec, mechs, imp, rng, lib, tpls>>

HsInit ==
    /\ hs.some /\ hs.made < MaxNative
    /\ hs' = [HashState_init(hs) EXCEPT !.call = "init", !.before = hs.ret, !.ret = Null]
    /\ UNCHANGED <<op, last, obj, olast, cache, fname, file, slast, hm, hlast,
                   ec, mechs, imp, rng, lib, tpls>>

HsGetState ==
    /\ hs.some /\ (hs.s # Null \/ hs.made < MaxNative)
    /\ hs' = [HashState_get_state(hs) EXCEPT
                 !.call = IF hs.call = "get_state" THEN "get_state again" ELSE "get_state",
                 !.before = hs.ret]
    /\ UNCHANGED <<op, last, obj, olast, cache, fname, file, slast, hm, hlast,
                   ec, mechs, imp, rng, lib, tpls>>

\* the wrapper goes out of scope; what it made stays on record
HsDrop ==
    /\ hs.some
    /\ hs' = [HashState_drop(hs) EXCEPT !.some = FALSE, !.call = "drop", !.before = hs.s]
    /\ UNCHANGED <<op, last, obj, olast, cache, fname, file, slast, hm, hlast,
                   ec, mechs, imp, rng, lib, tpls>>

InitHash ==
    /\ hs = NoHs
    /\ TplsUnused
    /\ OpUnused
    /\ ObjUnused
    /\ StUnused
    /\ HmUnused
    /\ EcUnused
    /\ MechUnused
    /\ ImpUnused
    /\ LibUnused

NextHash == HsNew \/ HsInit \/ HsGetState \/ HsDrop

SpecHash == InitHash /\ [][NextHash]_vars

(***************************************************************************)
(* The shared object templates (object.rs): ATTR_DEFAULTS behind the Once  *)
(* INIT, and the threads that call create                                  *)
(***************************************************************************)
\* a call_once that lets in every caller that finds INIT not complete
Once_call_once_unguarded(state) ==
    IF state = "complete" THEN "skip" ELSE "run"

\* Once::call_once: the first caller runs the closure, a caller that comes
\* while it runs waits, a caller that comes later goes on
Once_call_once(state) ==
    CASE state = "incomplete" -> "run"
      [] state = "running" -> "wait"
      [] OTHER -> "skip"

\* lazy_init_data_object_template
lazy_init_data_object_template == data_object_template

\* get_data_object_template: a clone of the shared template; <<>> is None
get_data_object_template(shared) ==
    IF shared = <<>> THEN [rv |-> "panic", cattrs |-> <<>>]
    ELSE [rv |-> "CKR_OK", cattrs |-> shared]

\* create_data_object on the clone
create_data_object(o, cattrs) ==
    LET r == basic_object_attrs_checks(o, cattrs)
    IN  IF r.rv # "CKR_OK" THEN [rv |-> r.rv, obj |-> NoObj]
        ELSE [rv |-> "CKR_OK", obj |-> r.obj]

\* the templates the threads create from: a complete one, one that lacks
\* CKA_VALUE, one that names CKA_TOKEN twice
TplTemplates ==
    LET e(a) == [attr |-> a, decodes |-> TRUE]
        class == e(from_ulong("CKA_CLASS", CKO_DATA))
        app == e(from_string("CKA_APPLICATION", <<116>>))
        val == e(from_bytes("CKA_VALUE", <<1, 2, 3>>))
        tok == e(from_bool("CKA_TOKEN", TRUE))
    IN  {<<class, app, val>>, <<class, app>>, <<class, tok, app, tok>>}

tplsrest == <<op, last, obj, olast, cache, fname, file, slast, hm, hlast,
              ec, mechs, imp, rng, lib, hs>>

\* create is called: the object gets its UNIQUE_ID and the template entries
TplCreate(t) ==
    /\ tpls.th[t].pc = "idle"
    /\ \E template \in TplTemplates, uuid \in UUIDs :
          tpls' = [tpls EXCEPT !.th[t] = [NoThread EXCEPT !.pc = "once",
                                                          !.template = template,
                                                          !.uuid = uuid]]
    /\ UNCHANGED tplsrest

\* get_object_templates: INIT.call_once
TplCallOnce(t) ==
    /\ tpls.th[t].pc = "once"
    /\ Once_call_once(tpls.once) # "wait"
    /\ tpls' = IF Once_call_once(tpls.once) = "run"
               THEN [tpls EXCEPT !.once = "running", !.th[t].pc = "init"]
               ELSE [tpls EXCEPT !.th[t].pc = "clone"]
    /\ UNCHANGED tplsrest

\* the closure of call_once
TplInit(t) ==
    /\ tpls.th[t].pc = "init"
    /\ tpls' = [tpls EXCEPT !.template = lazy_init_data_object_template,
                            !.inits = @ + 1,
                            !.once = "complete",
                            !.th[t].pc = "clone"]
    /\ UNCHANGED tplsrest

TplClone(t) ==
    /\ tpls.th[t].pc = "clone"
    /\ LET r == get_data_object_template(tpls.template)
       IN  tpls' = [tpls EXCEPT !.th[t].pc = IF r.rv = "CKR_OK" THEN "check" ELSE "panic",
                                !.th[t].cattrs = r.cattrs]
    /\ UNCHANGED tplsrest

\* basic_object_attrs_checks on the thread's clone, and the return of create
TplCheck(t) ==
    /\ tpls.th[t].pc = "check"
    /\ LET me == tpls.th[t]
           o == [handle |-> 1,
                 attributes |-> <<from_string("CKA_UNIQUE_ID", me.uuid)>>
                                \o [i \in DOMAIN me.template |-> to_attribute(me.template[i]).attr]]
           r == create_data_object(o, me.cattrs)
       IN  tpls' = [tpls EXCEPT !.th[t].pc = "done", !.th[t].cattrs = <<>>,
                                !.th[t].rv = r.rv, !.th[t].obj = r.obj]
    /\ UNCHANGED tplsrest

\* the caller lets go of the result
TplReturn(t) ==
    /\ tpls.th[t].pc = "done"
    /\ tpls' = [tpls EXCEPT !.th[t] = NoThread]
    /\ UNCHANGED tplsrest

InitTpl ==
    /\ tpls = NoTpls
    /\ HsUnused
    /\ OpUnused
    /\ ObjUnused
    /\ StUnused
    /\ HmUnused
    /\ EcUnused
    /\ MechUnused
    /\ ImpUnused
    /\ LibUnused

NextTpl ==
    \E t \in Threads :
        \/ TplCreate(t) \/ TplCallOnce(t) \/ TplInit(t)
        \/ TplClone(t) \/ TplCheck(t) \/ TplReturn(t)

SpecTpl == InitTpl /\ [][NextTpl]_vars

(***************************************************************************)
(* RNG (rng.rs) over a DRBG (trait DRBG of mechanism.rs), and the library  *)
(* calls C_Initialize, C_Finalize and C_GenerateRandom                     *)
(***************************************************************************)
\* an octet of the output of the DRBG: octet i of the gen-th generate, made
\* with the additional input addtl; gen = 0 is the octet zero
ZeroOctet == [gen |-> 0, addtl |-> <<>>, i |-> 0]
Zeroes(n) == [k \in 1..n |-> ZeroOctet]

\* HmacSha256Drbg::new and HmacSha512Drbg::new: a DRBG instantiated from the
\* entropy source, or the error of a source that fails
HmacDrbg_new(seed) ==
    IF seed = "ok"
    THEN [rv |-> "CKR_OK", drbg |-> [initialized |-> TRUE, reseed_counter |-> 1]]
    ELSE [rv |-> "CKR_GENERAL_ERROR", drbg |-> NoDrbg]

\* DRBG::generate: refused before init and past the reseed interval
DRBG_generate(drbg, addtl, n) ==
    IF ~drbg.initialized \/ drbg.reseed_counter > ReseedInterval
    THEN [rv |-> "CKR_GENERAL_ERROR", drbg |-> drbg, output |-> <<>>]
    ELSE [rv |-> "CKR_OK",
          drbg |-> [drbg EXCEPT !.reseed_counter = @ + 1],
          output |-> [k \in 1..n |-> [gen |-> drbg.reseed_counter, addtl |-> addtl, i |-> k]]]

RNG_new(alg, seed) ==
    IF alg \in {"HMAC DRBG SHA256", "HMAC DRBG SHA512"}
    THEN HmacDrbg_new(seed)
    ELSE [rv |-> "CKR_RANDOM_NO_RNG", drbg |-> NoDrbg]

\* a generate_random that answers Ok whatever the DRBG says
RNG_generate_random_masked(drbg, buffer) ==
    LET g == DRBG_generate(drbg, <<>>, Len(buffer))
    IN  [rv |-> "CKR_OK", drbg |-> g.drbg,
         buffer |-> IF g.rv = "CKR_OK" THEN g.output ELSE buffer]

RNG_generate_random(drbg, buffer) ==
    LET g == DRBG_generate(drbg, <<>>, Len(buffer))
    IN  [rv |-> g.rv, drbg |-> g.drbg,
         buffer |-> IF g.rv = "CKR_OK" THEN g.output ELSE buffer]

\* a finalize that leaves the library initialized
C_Finalize_keeps_state(l) ==
    IF ~l.initialized THEN [rv |-> "CKR_CRYPTOKI_NOT_INITIALIZED", initialized |-> FALSE]
    ELSE [rv |-> "CKR_OK", initialized |-> TRUE]

\* C_Finalize: the library is no longer initialized
C_Finalize(l) ==
    IF ~l.initialized THEN [rv |-> "CKR_CRYPTOKI_NOT_INITIALIZED", initialized |-> FALSE]
    ELSE [rv |-> "CKR_OK", initialized |-> FALSE]

\* C_Initialize: args is "explicit" (the initialization string is in the
\* arguments), "empty" (arguments without one) or "null" (a null pointer);
\* without a string in the arguments KRYOPTIC_CONF supplies it; the token
\* makes its RNG
C_Initialize(l, args, seed) ==
    LET r == RNG_new("HMAC DRBG SHA256", seed)
    IN  IF l.initialized
        THEN [rv |-> "CKR_CRYPTOKI_ALREADY_INITIALIZED", initialized |-> TRUE, drbg |-> NoDrbg]
        ELSE IF args # "explicit" /\ ~l.env
        THEN [rv |-> "CKR_ARGUMENTS_BAD", initialized |-> FALSE, drbg |-> NoDrbg]
        ELSE IF r.rv # "CKR_OK" THEN [rv |-> r.rv, initialized |-> FALSE, drbg |-> NoDrbg]
        ELSE [rv |-> "CKR_OK", initialized |-> TRUE, drbg |-> r.drbg]

(***************************************************************************)
(* The calls on an RNG and on the library                                  *)
(***************************************************************************)
RngNames == {"HMAC DRBG SHA256", "HMAC DRBG SHA512", "HMAC DRBG SHA1", "CTR DRBG", ""}
Seeds == {"ok", "fail"}

\* RNG::new outside of a token
RngNew ==
    /\ ~lib.initialized /\ ~rng.some
    /\ \E alg \in RngNames, seed \in Seeds :
          LET r == RNG_new(alg, seed)
          IN  rng' = [NoRng EXCEPT !.some = r.rv = "CKR_OK", !.alg = alg, !.drbg = r.drbg,
                                   !.call = "new", !.rv = r.rv]
    /\ UNCHANGED <<corevars, ec, mechs, imp, lib>>

\* generate_random of an RNG outside of a token, on a zeroed buffer
RngGenerate ==
    /\ ~lib.initialized /\ rng.some
    /\ \E n \in 0..MaxRandom :
          LET r == RNG_generate_random(rng.drbg, Zeroes(n))
          IN  rng' = [rng EXCEPT !.drbg = r.drbg, !.call = "generate_random",
                                 !.rv = r.rv, !.pre = rng.drbg, !.buffer = r.buffer]
    /\ UNCHANGED <<corevars, ec, mechs, imp, lib>>

RngDrop ==
    /\ ~lib.initialized /\ rng # NoRng
    /\ rng' = NoRng
    /\ UNCHANGED <<corevars, ec, mechs, imp, lib>>

\* the environment variable KRYOPTIC_CONF is set
SetEnv ==
    /\ ~lib.env
    /\ lib' = [lib EXCEPT !.env = TRUE]
    /\ UNCHANGED <<corevars, ec, mechs, imp, rng>>

LibInitialize ==
    /\ ~rng.some \/ lib.initialized
    /\ \E args \in {"explicit", "empty", "null"}, seed \in Seeds :
          LET r == C_Initialize(lib, args, seed)
          IN  /\ lib' = [lib EXCEPT !.initialized = r.initialized, !.call = "C_Initialize",
                                    !.args = args, !.seed = seed, !.rv = r.rv]
              /\ rng' = IF r.rv = "CKR_OK"
                        THEN [NoRng EXCEPT !.some = TRUE, !.alg = "HMAC DRBG SHA256",
                                           !.drbg = r.drbg, !.call = "new", !.rv = "CKR_OK"]
                        ELSE rng
    /\ UNCHANGED <<corevars, ec, mechs, imp>>

LibFinalize ==
    /\ ~rng.some \/ lib.initialized
    /\ LET r == C_Finalize(lib)
       IN  /\ lib' = [lib EXCEPT !.initialized = r.initialized, !.call = "C_Finalize",
                                 !.finalized = @ \/ r.rv = "CKR_OK", !.args = "none", !.seed = "none", !.rv = r.rv]
           /\ rng' = IF r.rv = "CKR_OK" THEN NoRng ELSE rng
    /\ UNCHANGED <<corevars, ec, mechs, imp>>

\* C_GenerateRandom of a session on a zeroed buffer
LibGenerateRandom ==
    /\ ~rng.some \/ lib.initialized
    /\ \E n \in 0..MaxRandom :
          IF ~lib.initialized
          THEN /\ lib' = [lib EXCEPT !.call = "C_GenerateRandom", !.args = "none",
                                     !.seed = "none", !.rv = "CKR_CRYPTOKI_NOT_INITIALIZED"]
               /\ rng' = rng
          ELSE LET r == RNG_generate_random(rng.drbg, Zeroes(n))
               IN  /\ lib' = [lib EXCEPT !.call = "C_GenerateRandom", !.args = "none",
                                         !.seed = "none", !.rv = r.rv]
                   /\ rng' = [rng EXCEPT !.drbg = r.drbg, !.call = "generate_random",
                                         !.rv = r.rv, !.pre = rng.drbg,
                                         !.buffer = r.buffer]
    /\ UNCHANGED <<corevars, ec, mechs, imp>>

InitLib ==
    /\ rng = NoRng
    /\ lib = NoLib
    /\ OpUnused
    /\ ObjUnused
    /\ StUnused
    /\ HmUnused
    /\ EcUnused
    /\ MechUnused
    /\ ImpUnused
    /\ AuxUnused

NextLib ==
    \/ RngNew \/ RngGenerate \/ RngDrop
    \/ SetEnv \/ LibInitialize \/ LibFinalize \/ LibGenerateRandom

SpecLib == InitLib /\ [][NextLib]_vars

(***************************************************************************)
(* Mechanisms (mechanism.rs): the registry, the constructors of the trait  *)
(* Mechanism and the mechanisms that hmac.rs and ec/montgomery.rs register *)
(***************************************************************************)
\* the constructors of the trait, each with the flag of its capability
Constructors ==
    {"encryption_new", "decryption_new", "digest_new", "sign_new", "verify_new",
     "generate_key", "generate_keypair"}
CtorFlag(ctor) ==
    CASE ctor = "encryption_new" -> "CKF_ENCRYPT"
      [] ctor = "decryption_new" -> "CKF_DECRYPT"
      [] ctor = "digest_new" -> "CKF_DIGEST"
      [] ctor = "sign_new" -> "CKF_SIGN"
      [] ctor = "verify_new" -> "CKF_VERIFY"
      [] ctor = "generate_key" -> "CKF_GENERATE"
      [] ctor = "generate_keypair" -> "CKF_GENERATE_KEY_PAIR"

\* Mechanisms::new, add_mechanism, info and get: tree maps a mechanism type
\* to the mechanism registered for it
Mechanisms_new == <<>>
add_mechanism(tree, typ, m) ==
    [t \in DOMAIN tree \cup {typ} |-> IF t = typ THEN m ELSE tree[t]]
NoMechanism == [impl |-> "none", info |-> [ulMinKeySize |-> 0, ulMaxKeySize |-> 0,
                                           flags |-> {}]]
Mechanisms_get(tree, typ) ==
    IF typ \in DOMAIN tree THEN [rv |-> "CKR_OK", m |-> tree[typ]]
    ELSE [rv |-> "CKR_MECHANISM_INVALID", m |-> NoMechanism]

\* hashlen() of the digest a mechanism type names, 0 when it names none
hashlen(typ) ==
    CASE typ \in {"CKM_SHA_1_HMAC", "CKM_SHA_1_HMAC_GENERAL"} -> 20
      [] typ \in {"CKM_SHA256_HMAC", "CKM_SHA256_HMAC_GENERAL"} -> 32
      [] typ \in {"CKM_SHA384_HMAC", "CKM_SHA384_HMAC_GENERAL"} -> 48
      [] typ \in {"CKM_SHA512_HMAC", "CKM_SHA512_HMAC_GENERAL"} -> 64
      [] OTHER -> 0
\* CKK_SHA_1_HMAC, CKK_SHA256_HMAC, CKK_SHA384_HMAC, CKK_SHA512_HMAC
hmac_keytype(typ) ==
    CASE typ \in {"CKM_SHA_1_HMAC", "CKM_SHA_1_HMAC_GENERAL"} -> 40
      [] typ \in {"CKM_SHA256_HMAC", "CKM_SHA256_HMAC_GENERAL"} -> 43
      [] typ \in {"CKM_SHA384_HMAC", "CKM_SHA384_HMAC_GENERAL"} -> 44
      [] typ \in {"CKM_SHA512_HMAC", "CKM_SHA512_HMAC_GENERAL"} -> 45
      [] OTHER -> 0

HMACMechanism(typ, general) ==
    [impl |-> "HMAC",
     info |-> [ulMinKeySize |-> 0, ulMaxKeySize |-> 0, flags |-> {"CKF_SIGN", "CKF_VERIFY"}],
     keytype |-> hmac_keytype(typ),
     minlen |-> IF general THEN 1 ELSE hashlen(typ),
     maxlen |-> hashlen(typ)]

\* hmac::register
hmac_register(tree) ==
    LET t1 == add_mechanism(tree, "CKM_SHA_1_HMAC_GENERAL",
                            HMACMechanism("CKM_SHA_1_HMAC_GENERAL", TRUE))
        t2 == add_mechanism(t1, "CKM_SHA_1_HMAC", HMACMechanism("CKM_SHA_1_HMAC", FALSE))
        t3 == add_mechanism(t2, "CKM_SHA256_HMAC_GENERAL",
                            HMACMechanism("CKM_SHA256_HMAC_GENERAL", TRUE))
        t4 == add_mechanism(t3, "CKM_SHA256_HMAC", HMACMechanism("CKM_SHA256_HMAC", FALSE))
        t5 == add_mechanism(t4, "CKM_SHA384_HMAC_GENERAL",
                            HMACMechanism("CKM_SHA384_HMAC_GENERAL", TRUE))
        t6 == add_mechanism(t5, "CKM_SHA384_HMAC", HMACMechanism("CKM_SHA384_HMAC", FALSE))
        t7 == add_mechanism(t6, "CKM_SHA512_HMAC_GENERAL",
                            HMACMechanism("CKM_SHA512_HMAC_GENERAL", TRUE))
    IN  add_mechanism(t7, "CKM_SHA512_HMAC", HMACMechanism("CKM_SHA512_HMAC", FALSE))

\* ECMontgomeryMechanism::register_mechanisms; the key sizes are BITS_X25519
\* and BITS_X448
ECMontgomeryMechanism_register_mechanisms(tree) ==
    add_mechanism(tree, "CKM_EC_MONTGOMERY_KEY_PAIR_GEN",
        [impl |-> "ECMontgomery",
         info |-> [ulMinKeySize |-> 255, ulMaxKeySize |-> 448,
                   flags |-> {"CKF_GENERATE_KEY_PAIR"}]])

\* check_and_fetch_key of hmac.rs
check_and_fetch_key(key, keytype) ==
    LET class == get_attr_as_ulong(key, "CKA_CLASS")
        t == get_attr_as_ulong(key, "CKA_KEY_TYPE")
        v == get_attr_as_bytes(key, "CKA_VALUE")
    IN  IF class.rv # "CKR_OK" THEN [rv |-> class.rv, key |-> <<>>]
        ELSE IF class.val # CKO_SECRET_KEY
             THEN [rv |-> "CKR_KEY_TYPE_INCONSISTENT", key |-> <<>>]
        ELSE IF t.rv # "CKR_OK" THEN [rv |-> t.rv, key |-> <<>>]
        ELSE IF t.val # CKK_GENERIC_SECRET /\ t.val # keytype
             THEN [rv |-> "CKR_KEY_TYPE_INCONSISTENT", key |-> <<>>]
        ELSE IF v.rv # "CKR_OK" THEN [rv |-> v.rv, key |-> <<>>]
        ELSE [rv |-> "CKR_OK", key |-> v.val]

\* HMACMechanism::sign_new and verify_new, which differ in the flag they
\* test: the code returned; a: the CK_MECHANISM (its type, ulParameterLen in
\* CK_ULONGs, the CK_ULONG it points to), the key object, and whether
\* HMACOperation::init fails
HMACMechanism_sign_new(m, flag, a) ==
    LET p == check_and_fetch_param(a.paramlen, a.genlen, m.minlen, m.maxlen)
        k == check_and_fetch_key(a.key, m.keytype)
    IN  IF flag \notin m.info.flags THEN "CKR_MECHANISM_INVALID"
        ELSE IF p.rv # "CKR_OK" THEN p.rv
        ELSE IF k.rv # "CKR_OK" THEN k.rv
        ELSE IF hashlen(a.mechanism) = 0 THEN "CKR_MECHANISM_INVALID"
        ELSE IF a.fail THEN "CKR_DEVICE_ERROR"
        ELSE "CKR_OK"

\* a trait whose HMAC mechanisms also answer digest_new
Mechanism_construct_hmac_digests(m, ctor, a) ==
    IF m.impl = "HMAC" /\ ctor \in {"sign_new", "verify_new", "digest_new"}
    THEN HMACMechanism_sign_new(m, "CKF_SIGN", a)
    ELSE IF m.impl = "ECMontgomery" /\ ctor = "generate_keypair"
    THEN ECMontgomeryMechanism_generate_keypair(a.pub_template, a.pri_template,
                                                EcUUIDs, a.fail).rv
    ELSE "CKR_MECHANISM_INVALID"

\* the call of a constructor on a Box<dyn Mechanism>: the implementation of
\* the mechanism where it has one, the default of the trait otherwise
Mechanism_construct(m, ctor, a) ==
    IF m.impl = "HMAC" /\ ctor \in {"sign_new", "verify_new"}
    THEN HMACMechanism_sign_new(m, CtorFlag(ctor), a)
    ELSE IF m.impl = "ECMontgomery" /\ ctor = "generate_keypair"
    THEN ECMontgomeryMechanism_generate_keypair(a.pub_template, a.pri_template,
                                                EcUUIDs, a.fail).rv
    ELSE "CKR_MECHANISM_INVALID"

(***************************************************************************)
(* The calls on the registry                                               *)
(***************************************************************************)
\* the types asked for: the registered ones and one that nothing registers
MechTypes ==
    {"CKM_SHA_1_HMAC", "CKM_SHA_1_HMAC_GENERAL", "CKM_SHA256_HMAC",
     "CKM_SHA256_HMAC_GENERAL", "CKM_SHA384_HMAC", "CKM_SHA384_HMAC_GENERAL",
     "CKM_SHA512_HMAC", "CKM_SHA512_HMAC_GENERAL", "CKM_EC_MONTGOMERY_KEY_PAIR_GEN",
     "CKM_DSA"}

\* key objects: a generic secret, an RSA private key, an object without class
MechKeys ==
    {[handle |-> 1, attributes |-> <<from_ulong("CKA_CLASS", CKO_SECRET_KEY),
                                     from_ulong("CKA_KEY_TYPE", CKK_GENERIC_SECRET),
                                     from_bytes("CKA_VALUE", <<1, 2>>)>>],
     [handle |-> 1, attributes |-> <<from_ulong("CKA_CLASS", CKO_PRIVATE_KEY),
                                     from_ulong("CKA_KEY_TYPE", CKK_RSA)>>],
     [handle |-> 1, attributes |-> <<from_bytes("CKA_VALUE", <<1, 2>>)>>]}

\* the arguments of the constructor ctor of the mechanism of type typ: the
\* parameter and the key matter to sign_new and verify_new, the templates
\* to generate_keypair
MechArgs(typ, ctor) ==
    [mechanism : {typ},
     paramlen : IF ctor \in {"sign_new", "verify_new"} THEN 0..1 ELSE {0},
     genlen : {IF hashlen(typ) = 0 THEN 1 ELSE hashlen(typ)},
     key : IF ctor \in {"sign_new", "verify_new"} THEN MechKeys
           ELSE {[handle |-> 1, attributes |-> <<>>]},
     pub_template : IF ctor = "generate_keypair"
                    THEN {<<>>, <<[attr |-> from_bytes("CKA_EC_PARAMS", DerOid(X25519_OID)),
                                   decodes |-> TRUE]>>}
                    ELSE {<<>>},
     pri_template : {<<>>},
     fail : BOOLEAN]

MechsNew ==
    /\ mechs = NoMech
    /\ mechs' = [call |-> "new", tree |-> Mechanisms_new]
    /\ UNCHANGED <<corevars, ec, imp, rng, lib>>

MechRegisterHmac ==
    /\ mechs # NoMech
    /\ mechs' = [call |-> "register", tree |-> hmac_register(mechs.tree)]
    /\ UNCHANGED <<corevars, ec, imp, rng, lib>>

MechRegisterMontgomery ==
    /\ mechs # NoMech
    /\ mechs' = [call |-> "register",
                 tree |-> ECMontgomeryMechanism_register_mechanisms(mechs.tree)]
    /\ UNCHANGED <<corevars, ec, imp, rng, lib>>

\* Mechanisms::get alone
MechGet ==
    /\ mechs # NoMech
    /\ \E typ \in MechTypes :
          mechs' = [call |-> "get", tree |-> mechs.tree, typ |-> typ,
                    rv |-> Mechanisms_get(mechs.tree, typ).rv]
    /\ UNCHANGED <<corevars, ec, imp, rng, lib>>

\* the session: get(typ)? and then a constructor of what it returned
MechConstruct ==
    /\ mechs # NoMech
    /\ \E typ \in MechTypes, ctor \in Constructors :
       \E a \in MechArgs(typ, ctor) :
          LET g == Mechanisms_get(mechs.tree, typ)
          IN  mechs' = [call |-> "construct", tree |-> mechs.tree, typ |-> typ,
                        ctor |-> ctor, args |-> a,
                        rv |-> IF g.rv # "CKR_OK" THEN g.rv
                               ELSE Mechanism_construct(g.m, ctor, a)]
    /\ UNCHANGED <<corevars, ec, imp, rng, lib>>

MechsDrop ==
    /\ mechs # NoMech
    /\ mechs' = NoMech
    /\ UNCHANGED <<corevars, ec, imp, rng, lib>>

InitMech ==
    /\ mechs = NoMech
    /\ OpUnused
    /\ ObjUnused
    /\ StUnused
    /\ HmUnused
    /\ EcUnused
    /\ ImpUnused
    /\ LibUnused
    /\ AuxUnused

NextMech ==
    \/ MechsNew \/ MechRegisterHmac \/ MechRegisterMontgomery
    \/ MechGet \/ MechConstruct \/ MechsDrop

SpecMech == InitMech /\ [][NextMech]_vars

(***************************************************************************)
(* The session's calls on its operation                                    *)
(***************************************************************************)
\* inp: the arguments of the call that the later state does not show; the
\* length of the modulus the operation at hand was made with stays on record
DoIn(name, r, nullbuf, buflen, datalen, inp) ==
    /\ op' = r.op
    /\ last' = [call |-> name, pre |-> op, rv |-> r.rv, wrote |-> r.wrote, len |-> r.len,
                nullbuf |-> nullbuf, buflen |-> buflen, datalen |-> datalen,
                inp |-> IF op = NoOp THEN inp
                        ELSE [inp EXCEPT !.modlen = last.inp.modlen]]
    /\ UNCHANGED <<objvars, stvars, hmvars, extvars>>

Do(name, r, nullbuf, buflen, datalen) ==
    DoIn(name, r, nullbuf, buflen, datalen, NoInput)

Failures == SUBSET ProviderSteps
SigLens(o) == {o.output_len - 1, o.output_len}
\* the length a size query on o answers
Required(o) == IF o.kind = "Decryption" THEN o.max_input ELSE o.output_len
BufLens(o) == {Required(o) - 1, Required(o), Required(o) + 1}

HmacSignNew ==
    /\ op = NoOp
    /\ \E mech \in HmacMechs, paramlen \in 0..1, genlen \in 0..(MaxOutputLen + 1),
          pf \in Failures :
          Do("sign_new", HMACMechanism_new("Sign", mech, paramlen, genlen, pf),
             FALSE, 0, 0)

HmacVerifyNew ==
    /\ op = NoOp
    /\ \E mech \in HmacMechs, paramlen \in 0..1, genlen \in 0..(MaxOutputLen + 1),
          pf \in Failures :
          Do("verify_new", HMACMechanism_new("Verify", mech, paramlen, genlen, pf),
             FALSE, 0, 0)

RsaEncryptNew ==
    /\ op = NoOp
    /\ \E mech \in RsaMechs, modlen \in ModulusLens, info \in MechInfos,
          pf \in Failures :
          DoIn("encrypt_new", RsaPKCSOperation_encrypt_new(mech, modlen, info, pf),
               FALSE, 0, 0,
               [NoInput EXCEPT !.modlen = modlen, !.info = info, !.pf = pf])

RsaDecryptNew ==
    /\ op = NoOp
    /\ \E mech \in RsaMechs, modlen \in ModulusLens, info \in MechInfos,
          pf \in Failures :
          DoIn("decrypt_new", RsaPKCSOperation_decrypt_new(mech, modlen, info, pf),
               FALSE, 0, 0,
               [NoInput EXCEPT !.modlen = modlen, !.info = info, !.pf = pf])

RsaSignNew ==
    /\ op = NoOp
    /\ \E mech \in RsaMechs \cup {"CKM_RSA_X_509"}, modlen \in ModulusLens,
          info \in MechInfos, pf \in Failures :
          DoIn("sign_new", RsaPKCSOperation_sign_new(mech, modlen, info, pf),
               FALSE, 0, 0,
               [NoInput EXCEPT !.modlen = modlen, !.info = info, !.pf = pf])

RsaVerifyNew ==
    /\ op = NoOp
    /\ \E mech \in RsaMechs \cup {"CKM_RSA_X_509"}, modlen \in ModulusLens,
          info \in MechInfos, pf \in Failures :
          DoIn("verify_new", RsaPKCSOperation_verify_new(mech, modlen, info, pf),
               FALSE, 0, 0,
               [NoInput EXCEPT !.modlen = modlen, !.info = info, !.pf = pf])

Encrypt ==
    /\ op # NoOp /\ op.kind = "Encryption"
    /\ \E nullbuf \in BOOLEAN, buflen \in BufLens(op), pf \in Failures :
          Do("encrypt", RsaPKCSOperation_encrypt(op, nullbuf, buflen, pf),
             nullbuf, buflen, 0)

EncryptUpdate ==
    /\ op # NoOp /\ op.kind = "Encryption"
    /\ Do("encrypt_update", RsaPKCSOperation_encrypt_update(op), FALSE, 0, 0)

EncryptFinal ==
    /\ op # NoOp /\ op.kind = "Encryption"
    /\ Do("encrypt_final", RsaPKCSOperation_encrypt_final(op), FALSE, 0, 0)

Decrypt ==
    /\ op # NoOp /\ op.kind = "Decryption"
    /\ \E nullbuf \in BOOLEAN, buflen \in BufLens(op), plen \in {0, op.output_len},
          pf \in Failures :
          Do("decrypt", RsaPKCSOperation_decrypt(op, nullbuf, buflen, plen, pf),
             nullbuf, buflen, 0)

DecryptUpdate ==
    /\ op # NoOp /\ op.kind = "Decryption"
    /\ Do("decrypt_update", RsaPKCSOperation_decrypt_update(op), FALSE, 0, 0)

DecryptFinal ==
    /\ op # NoOp /\ op.kind = "Decryption"
    /\ Do("decrypt_final", RsaPKCSOperation_decrypt_final(op), FALSE, 0, 0)

Sign ==
    /\ op # NoOp /\ op.kind = "Sign"
    /\ \E datalen \in DataLens, siglen \in SigLens(op), pf \in Failures :
          DoIn("sign",
               IF op.impl = "HMAC" THEN HMACOperation_sign(op, siglen, pf)
               ELSE RsaPKCSOperation_sign(op, datalen, siglen, pf),
               FALSE, siglen, datalen, [NoInput EXCEPT !.pf = pf])

SignUpdate ==
    /\ op # NoOp /\ op.kind = "Sign"
    /\ \E datalen \in DataLens, pf \in Failures :
          Do("sign_update",
             IF op.impl = "HMAC" THEN HMACOperation_sign_update(op, pf)
             ELSE RsaPKCSOperation_sign_update(op, pf),
             FALSE, 0, datalen)

SignFinal ==
    /\ op # NoOp /\ op.kind = "Sign"
    /\ \E siglen \in SigLens(op), pf \in Failures :
          Do("sign_final",
             IF op.impl = "HMAC" THEN HMACOperation_sign_final(op, siglen, pf)
             ELSE RsaPKCSOperation_sign_final(op, pf),
             FALSE, siglen, 0)

Verify ==
    /\ op # NoOp /\ op.kind = "Verify"
    /\ \E datalen \in DataLens, siglen \in SigLens(op), sigok \in BOOLEAN,
          pf \in Failures :
          DoIn("verify",
               IF op.impl = "HMAC" THEN HMACOperation_verify(op, siglen, sigok, pf)
               ELSE RsaPKCSOperation_verify(op, datalen, siglen, sigok, pf),
               FALSE, siglen, datalen, [NoInput EXCEPT !.sigok = sigok, !.pf = pf])

VerifyUpdate ==
    /\ op # NoOp /\ op.kind = "Verify"
    /\ \E datalen \in DataLens, pf \in Failures :
          Do("verify_update",
             IF op.impl = "HMAC" THEN HMACOperation_verify_update(op, pf)
             ELSE RsaPKCSOperation_verify_update(op, pf),
             FALSE, 0, datalen)

VerifyFinal ==
    /\ op # NoOp /\ op.kind = "Verify"
    /\ \E siglen \in SigLens(op), sigok \in BOOLEAN, pf \in Failures :
          DoIn("verify_final",
               IF op.impl = "HMAC" THEN HMACOperation_verify_final(op, siglen, sigok, pf)
               ELSE RsaPKCSOperation_verify_final(op, sigok, pf),
               FALSE, siglen, 0, [NoInput EXCEPT !.sigok = sigok, !.pf = pf])

\* the session drops its operation
\* encryption_len, decryption_len and signature_len of an RSA operation
EncryptionLen ==
    /\ op # NoOp /\ op.impl = "RSA" /\ op.kind = "Encryption"
    /\ Do("encryption_len", RsaPKCSOperation_encryption_len(op), FALSE, 0, 0)

DecryptionLen ==
    /\ op # NoOp /\ op.impl = "RSA" /\ op.kind = "Decryption"
    /\ Do("decryption_len", RsaPKCSOperation_decryption_len(op), FALSE, 0, 0)

SignatureLen ==
    /\ op # NoOp /\ op.impl = "RSA" /\ op.kind \in {"Sign", "Verify"}
    /\ Do("signature_len", RsaPKCSOperation_signature_len(op), FALSE, 0, 0)

DropOp ==
    /\ op # NoOp
    /\ op' = NoOp
    /\ last' = NoCall
    /\ UNCHANGED <<objvars, stvars, hmvars, extvars>>

InitOp ==
    /\ op = NoOp
    /\ last = NoCall
    /\ ObjUnused
    /\ StUnused
    /\ HmUnused
    /\ ExtUnused

NextOp ==
    \/ HmacSignNew \/ HmacVerifyNew
    \/ RsaEncryptNew \/ RsaDecryptNew \/ RsaSignNew \/ RsaVerifyNew
    \/ Encrypt \/ EncryptUpdate \/ EncryptFinal
    \/ Decrypt \/ DecryptUpdate \/ DecryptFinal
    \/ Sign \/ SignUpdate \/ SignFinal
    \/ Verify \/ VerifyUpdate \/ VerifyFinal
    \/ EncryptionLen \/ DecryptionLen \/ SignatureLen
    \/ DropOp

SpecOp == InitOp /\ [][NextOp]_vars

(***************************************************************************)
(* HMACOperation, the bytes it computes (hmac.rs).  A byte is a record:    *)
(* i = 0 is the plain octet x; i > 0 is octet i of the digest of message   *)
(* h, xored with x.  The digest is a function of its whole message and of  *)
(* nothing else, so two digests agree only on the same message.            *)
(***************************************************************************)
Plain(b) == [h |-> <<>>, i |-> 0, x |-> b]

MaxData == MaxChunk + 1

\* blocklen() of the digest: longer than its hashlen()
BlockLen == MaxOutputLen + 1
\* the octets of ipad and opad
IPAD == 54
OPAD == 92

RECURSIVE Xor(_, _)
\* bitwise exclusive or of two octets
Xor(a, b) ==
    IF a = 0 THEN b
    ELSE IF b = 0 THEN a
    ELSE ((a + b) % 2) + 2 * Xor(a \div 2, b \div 2)

\* *i1 ^= *i2 with i1 an octet of the pad and i2 an octet of the state
XorByte(c, b) == [b EXCEPT !.x = Xor(c, b.x)]

\* Vec::resize: truncate, or extend with the fill octet
resize(v, n, fill) == [k \in 1..n |-> IF k <= Len(v) THEN v[k] ELSE fill]

Take(v, n) == [k \in 1..n |-> v[k]]

\* the inner digest holds the message fed so far; reset() is <<>>
digest_update(d, data) == d \o data
digest_final(d) == [k \in 1..MaxOutputLen |-> [h |-> d, i |-> k, x |-> 0]]

HRes(o, rv, out) == [op |-> o, rv |-> rv, out |-> out]

\* K0 is taken from a key of at most blocklen - 1 octets only
HMAC_init_short_key(key, outputlen, pf) ==
    LET k0 == IF Len(key) < BlockLen THEN key
              ELSE digest_final(digest_update(<<>>, key))
        state == resize(k0, BlockLen, Plain(0))
        ipad == [k \in 1..BlockLen |-> XorByte(IPAD, state[k])]
        opad == [k \in 1..BlockLen |-> XorByte(OPAD, state[k])]
    IN  IF "setup" \in pf THEN HRes(NoHmac, "CKR_DEVICE_ERROR", <<>>)
        ELSE HRes([outputlen |-> outputlen, state |-> state, ipad |-> ipad,
                   opad |-> opad, inner |-> digest_update(<<>>, ipad),
                   finalized |-> FALSE, in_use |-> FALSE], "CKR_OK", <<>>)

HMAC_init(key, outputlen, pf) ==
    LET k0 == IF Len(key) <= BlockLen THEN key
              ELSE digest_final(digest_update(<<>>, key))
        state == resize(k0, BlockLen, Plain(0))
        ipad == [k \in 1..BlockLen |-> XorByte(IPAD, state[k])]
        opad == [k \in 1..BlockLen |-> XorByte(OPAD, state[k])]
    IN  IF "setup" \in pf THEN HRes(NoHmac, "CKR_DEVICE_ERROR", <<>>)
        ELSE HRes([outputlen |-> outputlen, state |-> state, ipad |-> ipad,
                   opad |-> opad, inner |-> digest_update(<<>>, ipad),
                   finalized |-> FALSE, in_use |-> FALSE], "CKR_OK", <<>>)

\* sign_new / verify_new down to HMACOperation::init
HMAC_new(mech, paramlen, genlen, key, pf) ==
    LET p == check_and_fetch_param(paramlen, genlen,
                                   HMACMechanism_minlen(mech), MaxOutputLen)
    IN  IF p.rv # "CKR_OK" THEN HRes(NoHmac, p.rv, <<>>)
        ELSE HMAC_init(key, p.len, pf)

\* the vector check_and_fetch_key cloned, as init leaves it: sign_new and
\* verify_new move it into init, where it goes out of scope with its octets
HMAC_new_key_left(mech, paramlen, genlen, key) ==
    LET p == check_and_fetch_param(paramlen, genlen,
                                   HMACMechanism_minlen(mech), MaxOutputLen)
    IN  IF p.rv # "CKR_OK" THEN <<>> ELSE key

\* Vec::zeroize: every octet of the vector is overwritten with zero
Vec_zeroize(v) == [k \in DOMAIN v |-> Plain(0)]

\* Drop for HMACOperation
HMACOperation_drop(o) ==
    [o EXCEPT !.state = Vec_zeroize(@), !.ipad = Vec_zeroize(@), !.opad = Vec_zeroize(@)]

HMAC_update(o, data, pf) ==
    IF "update" \in pf THEN HRes(o, "CKR_DEVICE_ERROR", <<>>)
    ELSE HRes([o EXCEPT !.inner = digest_update(o.inner, data)], "CKR_OK", <<>>)

\* out: the octets copied to the caller's buffer of outlen octets
HMAC_finalize(o, outlen, pf) ==
    LET state1 == digest_final(o.inner)
        inner2 == digest_update(digest_update(<<>>, o.opad), state1)
        state2 == digest_final(inner2)
    IN  IF "final" \in pf THEN HRes(o, "CKR_DEVICE_ERROR", <<>>)
        ELSE HRes([o EXCEPT !.state = state2, !.inner = inner2], "CKR_OK",
                  Take(state2, outlen))

\* a sign_update that marks the operation in use only after the update
HMAC_sign_update_marks_late(o, data, pf) ==
    IF o.finalized THEN HRes(o, "CKR_OPERATION_NOT_INITIALIZED", <<>>)
    ELSE LET u == HMAC_update(o, data, pf)
         IN  IF u.rv # "CKR_OK" THEN u
             ELSE HRes([u.op EXCEPT !.in_use = TRUE], u.rv, u.out)

HMAC_sign_update(o, data, pf) ==
    IF o.finalized THEN HRes(o, "CKR_OPERATION_NOT_INITIALIZED", <<>>)
    ELSE HMAC_update([o EXCEPT !.in_use = TRUE], data, pf)

HMAC_sign_final(o, siglen, pf) ==
    IF ~o.in_use THEN HRes(o, "CKR_OPERATION_NOT_INITIALIZED", <<>>)
    ELSE IF o.finalized THEN HRes(o, "CKR_OPERATION_NOT_INITIALIZED", <<>>)
    ELSE LET o1 == [o EXCEPT !.finalized = TRUE]
         IN  IF siglen # o1.outputlen THEN HRes(o1, "CKR_GENERAL_ERROR", <<>>)
             ELSE HMAC_finalize(o1, siglen, pf)

HMAC_sign(o, data, siglen, pf) ==
    IF o.in_use THEN HRes(o, "CKR_OPERATION_NOT_INITIALIZED", <<>>)
    ELSE LET u == HMAC_sign_update(o, data, pf)
         IN  IF u.rv # "CKR_OK"
             THEN HRes([u.op EXCEPT !.finalized = TRUE], u.rv, <<>>)
             ELSE HMAC_sign_final(u.op, siglen, pf)

HMAC_verify_update(o, data, pf) ==
    IF o.finalized THEN HRes(o, "CKR_OPERATION_NOT_INITIALIZED", <<>>)
    ELSE HMAC_update([o EXCEPT !.in_use = TRUE], data, pf)

\* out: the local vector verify, which the caller never sees
HMAC_verify_final(o, signature, pf) ==
    IF ~o.in_use THEN HRes(o, "CKR_OPERATION_NOT_INITIALIZED", <<>>)
    ELSE IF o.finalized THEN HRes(o, "CKR_OPERATION_NOT_INITIALIZED", <<>>)
    ELSE LET o1 == [o EXCEPT !.finalized = TRUE]
             f == HMAC_finalize(o1, o1.outputlen, pf)
         IN  IF Len(signature) # o1.outputlen
             THEN HRes(o1, "CKR_GENERAL_ERROR", <<>>)
             ELSE IF f.rv # "CKR_OK" THEN f
             ELSE IF f.out # signature
                  THEN HRes(f.op, "CKR_SIGNATURE_INVALID", f.out)
             ELSE HRes(f.op, "CKR_OK", f.out)

HMAC_verify(o, data, signature, pf) ==
    IF o.in_use THEN HRes(o, "CKR_OPERATION_NOT_INITIALIZED", <<>>)
    ELSE LET u == HMAC_verify_update(o, data, pf)
         IN  IF u.rv # "CKR_OK"
             THEN HRes([u.op EXCEPT !.finalized = TRUE], u.rv, <<>>)
             ELSE HMAC_verify_final(u.op, signature, pf)

(***************************************************************************)
(* Calls on one HMACOperation; hlast remembers the key, every octet of     *)
(* data the operation accepted, and the last call.                         *)
(***************************************************************************)
KeyOfLen(n) == [k \in 1..n |-> Plain(1 + (k % 2))]
Keys == {KeyOfLen(n) : n \in {1, BlockLen, BlockLen + 1}}
DataBytes == {Plain(7), Plain(8)}
Chunks == UNION {[1..n -> DataBytes] : n \in 0..MaxChunk}
ChunksFor(data) == {c \in Chunks : Len(data) + Len(c) <= MaxData}

\* FIPS 198-1 written out: H((K0 ^ opad) || H((K0 ^ ipad) || text))
RefK0(key) ==
    resize(IF Len(key) <= BlockLen THEN key ELSE digest_final(key),
           BlockLen, Plain(0))
RefMAC(key, text) ==
    LET k0 == RefK0(key)
        inner == digest_final([k \in 1..BlockLen |-> XorByte(IPAD, k0[k])] \o text)
    IN  digest_final([k \in 1..BlockLen |-> XorByte(OPAD, k0[k])] \o inner)

\* signatures a caller may present: the right one, one with its last octet
\* changed, one too short, one too long
Signatures(key, text, t) ==
    LET good == Take(RefMAC(key, text), t)
    IN  {good,
         [good EXCEPT ![t] = XorByte(1, good[t])],
         Take(good, t - 1),
         good \o <<Plain(0)>>}

\* the return codes of a call that took no data in
Refused == {"CKR_OPERATION_NOT_INITIALIZED", "CKR_DEVICE_ERROR"}

HmDo(call, r, data, sig) ==
    /\ hm' = r.op
    /\ hlast' = [hlast EXCEPT !.call = call,
                              !.data = IF r.rv \in Refused THEN @ ELSE @ \o data,
                              !.sig = sig, !.out = r.out, !.rv = r.rv]
    /\ UNCHANGED <<opvars, objvars, stvars, extvars>>

\* no failure, or the failure of one step of the call
FailuresAt(steps) == {{}} \cup {{x} : x \in steps}

HmDoNew(kind, mech, paramlen, genlen, key, r) ==
    /\ hm' = r.op
    /\ hlast' = [NoHmCall EXCEPT !.call = "new", !.kind = kind, !.mech = mech,
                                 !.paramlen = paramlen, !.genlen = genlen,
                                 !.key = key, !.rv = r.rv]
    /\ UNCHANGED <<opvars, objvars, stvars, extvars>>

\* the CK_ULONG a parameter of paramlen CK_ULONGs points to
GenLens(paramlen) == IF paramlen = 0 THEN {0} ELSE 0..(MaxOutputLen + 1)

HmSignNew ==
    /\ hm = NoHmac /\ hlast.call \in {"none", "drop"}
    /\ \E mech \in HmacMechs, paramlen \in 0..2, key \in Keys,
          pf \in FailuresAt({"setup"}) :
       \E genlen \in GenLens(paramlen) :
          HmDoNew("Sign", mech, paramlen, genlen, key,
                  HMAC_new(mech, paramlen, genlen, key, pf))

HmVerifyNew ==
    /\ hm = NoHmac /\ hlast.call \in {"none", "drop"}
    /\ \E mech \in HmacMechs, paramlen \in 0..2, key \in Keys,
          pf \in FailuresAt({"setup"}) :
       \E genlen \in GenLens(paramlen) :
          HmDoNew("Verify", mech, paramlen, genlen, key,
                  HMAC_new(mech, paramlen, genlen, key, pf))

HmSign ==
    /\ hlast.kind = "Sign" /\ hm # NoHmac
    /\ \E data \in ChunksFor(hlast.data), short \in 0..1, pf \in FailuresAt({"update", "final"}) :
          HmDo("sign", HMAC_sign(hm, data, hm.outputlen - short, pf), data, <<>>)

HmSignUpdate ==
    /\ hlast.kind = "Sign" /\ hm # NoHmac
    /\ \E data \in ChunksFor(hlast.data), pf \in FailuresAt({"update"}) :
          HmDo("sign_update", HMAC_sign_update(hm, data, pf), data, <<>>)

HmSignFinal ==
    /\ hlast.kind = "Sign" /\ hm # NoHmac
    /\ \E short \in 0..1, pf \in FailuresAt({"final"}) :
          HmDo("sign_final", HMAC_sign_final(hm, hm.outputlen - short, pf),
               <<>>, <<>>)

HmVerify ==
    /\ hlast.kind = "Verify" /\ hm # NoHmac
    /\ \E data \in ChunksFor(hlast.data) :
       \E sig \in Signatures(hlast.key, hlast.data \o data, hm.outputlen),
          pf \in FailuresAt({"update", "final"}) :
          HmDo("verify", HMAC_verify(hm, data, sig, pf), data, sig)

HmVerifyUpdate ==
    /\ hlast.kind = "Verify" /\ hm # NoHmac
    /\ \E data \in ChunksFor(hlast.data), pf \in FailuresAt({"update"}) :
          HmDo("verify_update", HMAC_verify_update(hm, data, pf), data, <<>>)

HmVerifyFinal ==
    /\ hlast.kind = "Verify" /\ hm # NoHmac
    /\ \E sig \in Signatures(hlast.key, hlast.data, hm.outputlen),
          pf \in FailuresAt({"final"}) :
          HmDo("verify_final", HMAC_verify_final(hm, sig, pf), <<>>, sig)

\* the session drops its operation; left is the memory of its vectors and
\* of the key vector that sign_new / verify_new handed to init
HmDrop ==
    /\ hlast.call \notin {"none", "drop"}
    /\ hm' = NoHmac
    /\ hlast' = [NoHmCall EXCEPT
                    !.call = "drop",
                    !.left = [state |-> HMACOperation_drop(hm).state,
                              ipad |-> HMACOperation_drop(hm).ipad,
                              opad |-> HMACOperation_drop(hm).opad,
                              key |-> HMAC_new_key_left(hlast.mech, hlast.paramlen,
                                                        hlast.genlen, hlast.key)]]
    /\ UNCHANGED <<opvars, objvars, stvars, extvars>>

InitHmac ==
    /\ hm = NoHmac
    /\ hlast = NoHmCall
    /\ OpUnused
    /\ ObjUnused
    /\ StUnused
    /\ ExtUnused

NextHmac ==
    \/ HmSignNew \/ HmVerifyNew
    \/ HmSign \/ HmSignUpdate \/ HmSignFinal
    \/ HmVerify \/ HmVerifyUpdate \/ HmVerifyFinal
    \/ HmDrop

SpecHmac == InitHmac /\ [][NextHmac]_vars

(***************************************************************************)
(* Properties of the operation state machines                              *)
(***************************************************************************)
OneShotCalls == {"encrypt", "decrypt", "sign", "verify"}
UpdateCalls == {"encrypt_update", "decrypt_update", "sign_update", "verify_update"}
FinalCalls == {"encrypt_final", "decrypt_final", "sign_final", "verify_final"}
Called == last.call \in OneShotCalls \cup UpdateCalls \cup FinalCalls
Fresh(o) == ~o.in_use /\ ~o.finalized
Running(o) == o.in_use /\ ~o.finalized
MultiCall(o) == o.impl = "HMAC" \/ o.mech \in RsaDigestMechs

\* C1: finalized never goes from true back to false, and every one-shot,
\* *_update and *_final call made on a finalized operation fails with
\* CKR_OPERATION_NOT_INITIALIZED.
C1_FinalizedIsTerminal ==
    (Called /\ last.pre.finalized)
        => (op.finalized /\ last.rv = "CKR_OPERATION_NOT_INITIALIZED")

\* a one-shot sign on a finalized HMAC operation was rejected
C1_Witness ==
    /\ last.call = "sign" /\ last.pre.impl = "HMAC" /\ last.pre.finalized
    /\ last.rv = "CKR_OPERATION_NOT_INITIALIZED"

\* C2, for the one-shot sign and verify calls (their output buffer is a slice,
\* never null): a one-shot call on a Fresh operation leaves finalized = true
\* whatever it returns.
C2_OneShotFinalizes ==
    (last.call \in {"sign", "verify"} /\ Fresh(last.pre)) => op.finalized

\* C3, for the *_update calls: a call that returns an error leaves the
\* operation finalized.
C3_ErrorFinalizes ==
    (last.call \in {"sign_update", "verify_update"} /\ last.rv # "CKR_OK")
        => op.finalized

\* a size query of encrypt or decrypt: the state is left as it was; on a
\* Fresh operation it answers CKR_OK with the required length unless the
\* provider fails
SizeQueryKeepsState ==
    (last.call \in {"encrypt", "decrypt"} /\ last.nullbuf) =>
        /\ op = last.pre
        /\ Fresh(last.pre) => last.rv \in {"CKR_OK", "CKR_DEVICE_ERROR"}
        /\ (Fresh(last.pre) /\ last.rv = "CKR_OK")
              => (last.wrote /\ last.len = Required(last.pre))

C5_MultiCallLifecycle ==
    (Called /\ MultiCall(last.pre)) =>
        /\ (last.call \in UpdateCalls /\ ~last.pre.finalized) => Running(op)
        /\ (last.call \in FinalCalls /\ Running(last.pre))
              => (op.finalized /\ op.in_use
                  /\ last.rv # "CKR_OPERATION_NOT_INITIALIZED")
        /\ (last.call \in FinalCalls /\ ~Running(last.pre))
              => (last.rv = "CKR_OPERATION_NOT_INITIALIZED" /\ op = last.pre)

\* sign_final of a SHAxxx_RSA_PKCS operation succeeded in Running
C5_Witness ==
    /\ last.call = "sign_final" /\ last.pre.impl = "RSA" /\ Running(last.pre)
    /\ last.rv = "CKR_OK" /\ op.finalized

\* C6: for CKM_RSA_PKCS, sign_update and verify_update from Fresh fail with
\* CKR_OPERATION_NOT_INITIALIZED; encrypt_update, encrypt_final,
\* decrypt_update and decrypt_final fail with it in every state.
C6_RsaPkcsSingleShot ==
    /\ (last.call \in {"sign_update", "verify_update"}
        /\ last.pre.mech = "CKM_RSA_PKCS" /\ Fresh(last.pre))
          => last.rv = "CKR_OPERATION_NOT_INITIALIZED"
    /\ last.call \in {"encrypt_update", "encrypt_final",
                      "decrypt_update", "decrypt_final"}
          => last.rv = "CKR_OPERATION_NOT_INITIALIZED"

\* sign_update on a Fresh CKM_RSA_PKCS operation was rejected
C6_Witness ==
    /\ last.call = "sign_update" /\ last.pre.mech = "CKM_RSA_PKCS"
    /\ Fresh(last.pre) /\ last.rv = "CKR_OPERATION_NOT_INITIALIZED"


(***************************************************************************)
(* Properties of fill_template, set_attr and create                        *)
(***************************************************************************)
Filled == olast.call = "fill_template"
HasAttr(o, id) == \E k \in DOMAIN o.attributes : o.attributes[k].type = id
ValueOf(o, id) ==
    o.attributes[CHOOSE k \in DOMAIN o.attributes : o.attributes[k].type = id].value
UlongOf(o, id) == IF HasAttr(o, id) THEN ValueOf(o, id)[1] ELSE CK_UNAVAILABLE_INFORMATION
FlagOf(o, id, def) == IF HasAttr(o, id) THEN ValueOf(o, id)[1] # 0 ELSE def

\* the sensitive set of the key type of a private or secret key
SensitiveSet(o) ==
    IF UlongOf(o, "CKA_CLASS") \in {CKO_PRIVATE_KEY, CKO_SECRET_KEY}
    THEN CASE UlongOf(o, "CKA_KEY_TYPE") = CKK_RSA -> SENSITIVE_CKK_RSA
           [] UlongOf(o, "CKA_KEY_TYPE") = CKK_GENERIC_SECRET ->
                 {"CKA_VALUE", "CKA_VALUE_LEN"}
           [] OTHER -> {}
    ELSE {}

\* hidden from read-out: in the sensitive set, of an object that is
\* sensitive or not extractable
Hidden(o, id) ==
    /\ id \in SensitiveSet(o)
    /\ FlagOf(o, "CKA_SENSITIVE", TRUE) \/ ~FlagOf(o, "CKA_EXTRACTABLE", FALSE)

\* the error rules 1, 2 and 4 record for an entry, "CKR_OK" when none does
EntryError(o, e) ==
    IF Hidden(o, e.type_) THEN "CKR_ATTRIBUTE_SENSITIVE"
    ELSE IF ~HasAttr(o, e.type_) THEN "CKR_ATTRIBUTE_TYPE_INVALID"
    ELSE IF ~e.null /\ e.ulValueLen < Len(ValueOf(o, e.type_)) THEN "CKR_BUFFER_TOO_SMALL"
    ELSE "CKR_OK"

EntryErrors(o, template) == {EntryError(o, template[i]) : i \in DOMAIN template}

\* the error of highest priority among errs
Priority(errs) ==
    IF "CKR_ATTRIBUTE_SENSITIVE" \in errs THEN "CKR_ATTRIBUTE_SENSITIVE"
    ELSE IF "CKR_ATTRIBUTE_TYPE_INVALID" \in errs THEN "CKR_ATTRIBUTE_TYPE_INVALID"
    ELSE IF "CKR_BUFFER_TOO_SMALL" \in errs THEN "CKR_BUFFER_TOO_SMALL"
    ELSE "CKR_OK"

\* C7: a fill_template whose template has a hidden entry returns
\* AttributeSensitive; every hidden entry gets no value bytes and
\* ulValueLen = CK_UNAVAILABLE_INFORMATION, and the entries that are not
\* hidden and name an attribute of the object read with a null pValue or a
\* long enough buffer still get their length.
C7_HiddenIsSensitive ==
    (Filled /\ \E i \in DOMAIN olast.arg : Hidden(obj, olast.arg[i].type_))
    => /\ olast.rv = "CKR_ATTRIBUTE_SENSITIVE"
       /\ \A i \in DOMAIN olast.arg :
             LET e == olast.arg[i]
                 r == olast.out[i]
             IN  /\ Hidden(obj, e.type_)
                    => r.buf = e.buf /\ r.ulValueLen = CK_UNAVAILABLE_INFORMATION
                 /\ EntryError(obj, e) = "CKR_OK"
                    => r.ulValueLen = Len(ValueOf(obj, e.type_))

\* C8: fill_template returns Ok iff no entry recorded an error, and else
\* the recorded error of highest priority, AttributeSensitive over
\* AttributeTypeInvalid over BufferTooSmall.
C8_PriorityOfErrors ==
    Filled => olast.rv = Priority(EntryErrors(obj, olast.arg))

\* C9: fill_template gives every entry of the template, whatever the
\* entries before it got, the outcome its rule gives: an absent attribute
\* that is not hidden CK_UNAVAILABLE_INFORMATION, a null pValue the length
\* of the value, a buffer shorter than the value CK_UNAVAILABLE_INFORMATION
\* and no bytes, and else the bytes of the value and their length; the call
\* returns Ok iff no entry recorded an error, one of the recorded errors
\* otherwise.
C9_PerEntryOutcome ==
    Filled =>
      /\ Len(olast.out) = Len(olast.arg)
      /\ \A i \in DOMAIN olast.arg :
            LET e == olast.arg[i]
                r == olast.out[i]
                err == EntryError(obj, e)
                val == ValueOf(obj, e.type_)
            IN  /\ r.type_ = e.type_ /\ r.null = e.null
                /\ err = "CKR_ATTRIBUTE_TYPE_INVALID"
                   => r.ulValueLen = CK_UNAVAILABLE_INFORMATION /\ r.buf = e.buf
                /\ err = "CKR_BUFFER_TOO_SMALL"
                   => r.ulValueLen = CK_UNAVAILABLE_INFORMATION /\ r.buf = e.buf
                /\ (err = "CKR_OK" /\ e.null)
                   => r.ulValueLen = Len(val) /\ r.buf = e.buf
                /\ (err = "CKR_OK" /\ ~e.null)
                   => /\ r.ulValueLen = Len(val)
                      /\ SubSeq(r.buf, 1, Len(val)) = val
                      /\ Len(r.buf) = Len(e.buf)
      /\ olast.rv = "CKR_OK" <=> EntryErrors(obj, olast.arg) \subseteq {"CKR_OK"}
      /\ olast.rv # "CKR_OK" => olast.rv \in EntryErrors(obj, olast.arg)

\* a template whose first entry names an absent attribute, whose second
\* entry is copied into a buffer longer than the value
C9_Witness ==
    /\ Filled
    /\ Len(olast.arg) = 2
    /\ EntryError(obj, olast.arg[1]) = "CKR_ATTRIBUTE_TYPE_INVALID"
    /\ EntryError(obj, olast.arg[2]) = "CKR_OK"
    /\ ~olast.arg[2].null
    /\ Len(olast.arg[2].buf) > Len(ValueOf(obj, olast.arg[2].type_))
    /\ olast.out[2].ulValueLen = Len(ValueOf(obj, olast.arg[2].type_))

NoDuplicateIds(attrs) ==
    \A i, j \in DOMAIN attrs : attrs[i].type = attrs[j].type => i = j

\* C10: no two attributes of an object share an id, after Object::new and
\* set_attr calls and after a create that returned Ok; set_attr with an id
\* the object has replaces the attribute at its position and changes
\* nothing else, set_attr with a new id appends.
C10_OneAttributePerId ==
    /\ NoDuplicateIds(obj.attributes)
    /\ olast.call = "set_attr" =>
          LET S == {k \in DOMAIN olast.pre : olast.pre[k].type = olast.arg.type}
          IN  IF S # {}
              THEN /\ Cardinality(S) = 1
                   /\ Len(obj.attributes) = Len(olast.pre)
                   /\ \A k \in DOMAIN olast.pre :
                         obj.attributes[k] = IF k \in S THEN olast.arg ELSE olast.pre[k]
              ELSE obj.attributes = Append(olast.pre, olast.arg)

\* set_attr replaced, by another value, an attribute in the middle of an
\* object that create returned
C10_Witness ==
    /\ olast.call = "set_attr"
    /\ HasAttr(obj, "CKA_UNIQUE_ID") /\ HasAttr(obj, "CKA_DESTROYABLE")
    /\ \E k \in DOMAIN olast.pre :
          /\ k < Len(olast.pre)
          /\ olast.pre[k].type = olast.arg.type
          /\ olast.pre[k] # olast.arg
          /\ obj.attributes[k] = olast.arg


(***************************************************************************)
(* Properties of create                                                    *)
(***************************************************************************)
Created == olast.call = "create"
\* the attributes the entries of a template decode to
TemplateAttrs(template) == [i \in DOMAIN template |-> template[i].attr]
Decodes(template) == \A i \in DOMAIN template : template[i].decodes
\* the schema of a data object: ids, ids with a default, required ids
DataSchemaIds ==
    {"CKA_CLASS", "CKA_TOKEN", "CKA_PRIVATE", "CKA_MODIFIABLE", "CKA_LABEL",
     "CKA_COPYABLE", "CKA_DESTROYABLE", "CKA_UNIQUE_ID", "CKA_APPLICATION",
     "CKA_OBJECT_ID", "CKA_VALUE"}
DataDefaults ==
    << from_bool("CKA_TOKEN", FALSE), from_bool("CKA_PRIVATE", FALSE),
       from_bool("CKA_MODIFIABLE", TRUE), from_bool("CKA_COPYABLE", TRUE),
       from_bool("CKA_DESTROYABLE", TRUE) >>
DataRequired == {"CKA_CLASS", "CKA_UNIQUE_ID", "CKA_APPLICATION", "CKA_VALUE"}
\* the class create selects the schema with is CKO_DATA
IsDataTemplate(template) ==
    /\ Decodes(template)
    /\ \E i \in DOMAIN template :
          /\ template[i].attr.type = "CKA_CLASS"
          /\ template[i].attr = from_ulong("CKA_CLASS", CKO_DATA)
          /\ \A j \in 1..(i - 1) : template[j].attr.type # "CKA_CLASS"
\* entry i names an id outside the schema / an id seen before it (the
\* CKA_UNIQUE_ID create sets itself is seen before every entry)
UnknownId(template, i) == template[i].attr.type \notin DataSchemaIds
SeenId(template, i) ==
    \/ template[i].attr.type = "CKA_UNIQUE_ID"
    \/ \E j \in 1..(i - 1) : template[j].attr.type = template[i].attr.type
Offending(template) ==
    {i \in DOMAIN template : UnknownId(template, i) \/ SeenId(template, i)}
RECURSIVE SelectAttrs(_, _)
SelectAttrs(attrs, keep) ==
    IF attrs = <<>> THEN <<>>
    ELSE (IF keep[Head(attrs).type] THEN <<Head(attrs)>> ELSE <<>>)
         \o SelectAttrs(Tail(attrs), keep)

StCalled == slast.call # "none"
\* the attributes of an object: ids, variants and values, in no order
AttrSet(o) == {o.attributes[i] : i \in DOMAIN o.attributes}

\* C13: when store(uid, O) of an object O with TOKEN = true returned Ok, a
\* new storage that opens the file opens it with Ok, and its
\* fetch_by_uid(uid) returns Ok and an object with the attributes of O (the
\* same ids, variants and values).
C13_StoreOpenFetchRoundTrip ==
    /\ (StCalled /\ slast.call = "open" /\ slast.trip.stage = "opened")
          => slast.rv = "CKR_OK"
    /\ (StCalled /\ slast.call = "fetch_by_uid" /\ slast.trip.stage = "opened"
        /\ slast.uid = slast.trip.uid)
          => /\ slast.rv = "CKR_OK"
             /\ AttrSet(slast.obj) = AttrSet(slast.trip.obj)

\* an object whose CKA_VALUE takes base64 padding came back from the file
C13_Witness ==
    /\ StCalled /\ slast.call = "fetch_by_uid" /\ slast.trip.stage = "opened"
    /\ slast.uid = slast.trip.uid
    /\ from_bytes("CKA_VALUE", <<255, 16>>) \in AttrSet(slast.trip.obj)
    /\ from_bytes("CKA_VALUE", <<255, 16>>) \in AttrSet(slast.obj)
    /\ Cardinality(DOMAIN cache) = 2

\* the Map an object is written as, stated attribute by attribute
WrittenAs(o) ==
    [key \in {a.type : a \in AttrSet(o)} |->
        LET a == CHOOSE x \in AttrSet(o) : x.type = key
        IN  CASE a.atype = "BoolType" -> JBool(a.value = <<1>>)
              [] a.atype = "NumType" -> JNumber(a.value[1])
              [] a.atype = "StringType" -> JString(a.value)
              [] OTHER -> JString(BASE64_encode(a.value))]
\* the cached objects whose CKA_TOKEN is true
TokenUids == {u \in DOMAIN cache : from_bool("CKA_TOKEN", TRUE) \in AttrSet(cache[u])}

\* C14: after a store, remove_by_uid or flush that returned Ok the file
\* holds exactly the cached objects whose CKA_TOKEN is true, each once, and
\* no object whose CKA_TOKEN is false or absent; store has put its object in
\* the cache, and remove_by_uid has taken its uid out of it, also when the
\* flush after it failed.
C14_FileIsTokenObjectsOfCache ==
    /\ (StCalled /\ slast.call \in {"store", "remove_by_uid", "flush"}
        /\ slast.rv = "CKR_OK")
          => /\ file.exists /\ file.ok
             /\ Len(file.objects) = Cardinality(TokenUids)
             /\ \A u \in TokenUids :
                   \E i \in DOMAIN file.objects : file.objects[i] = WrittenAs(cache[u])
    /\ (StCalled /\ slast.call = "store")
          => (slast.uid \in DOMAIN cache /\ cache[slast.uid] = slast.obj)
    /\ (StCalled /\ slast.call = "remove_by_uid"
        /\ slast.rv # "CKR_OBJECT_HANDLE_INVALID")
          => slast.uid \notin DOMAIN cache

\* a store of an object with TOKEN = false, next to a cached token object,
\* wrote a file of one object
C14_Witness ==
    /\ StCalled /\ slast.call = "store" /\ slast.rv = "CKR_OK"
    /\ from_bool("CKA_TOKEN", FALSE) \in AttrSet(slast.obj)
    /\ Cardinality(DOMAIN cache) = 2
    /\ Len(file.objects) = 1

HmMAC == RefMAC(hlast.key, hlast.data)
HmSigned == hlast.call \in {"sign", "sign_final"} /\ hlast.rv = "CKR_OK"
\* a verify call that got as far as looking at the signature
HmVerified == hlast.call \in {"verify", "verify_final"} /\ hlast.rv \notin Refused
HmCompared ==
    /\ hlast.call \in {"verify", "verify_final"}
    /\ hlast.rv \in {"CKR_OK", "CKR_SIGNATURE_INVALID"}

\* C16: the octets HMAC writes for a key K and data D are the leading octets
\* of H((K0 ^ opad) || H((K0 ^ ipad) || D)), with K0 the key padded with
\* zeros to the block length when it is no longer than a block and its
\* digest padded with zeros otherwise; the result depends on K and on the
\* concatenation D only, not on how D was cut into update calls nor on
\* whether the one-shot or the multi-call form was used.
C16_HmacIsFips198 ==
    /\ HmSigned => /\ hlast.out # <<>>
                   /\ hlast.out = Take(HmMAC, Len(hlast.out))
    /\ HmCompared => /\ hlast.out # <<>>
                     /\ hlast.out = Take(HmMAC, Len(hlast.out))

\* a key longer than a block, data that took more than one update, sign_final
C16_Witness ==
    /\ hlast.call = "sign_final" /\ hlast.rv = "CKR_OK"
    /\ Len(hlast.key) > BlockLen
    /\ Len(hlast.data) > MaxChunk

\* C17: HMAC verify and verify_final answer CKR_OK when the signature is
\* octet for octet the computed MAC cut to the output length, and
\* CKR_SIGNATURE_INVALID for every other signature, of another length or of
\* the same length with other content.
C17_HmacVerifyAcceptsOrInvalid ==
    HmVerified =>
        IF hlast.sig = Take(HmMAC, hm.outputlen)
        THEN hlast.rv = "CKR_OK"
        ELSE hlast.rv = "CKR_SIGNATURE_INVALID"

HmGeneral == hlast.mech = "CKM_SHA256_HMAC_GENERAL"
\* the parameter the mechanism takes: one CK_ULONG t in 1..L, or none
HmParamAccepted ==
    IF HmGeneral THEN hlast.paramlen = 1 /\ hlast.genlen \in 1..MaxOutputLen
    ELSE hlast.paramlen = 0
HmTagLen == IF HmGeneral THEN hlast.genlen ELSE MaxOutputLen

\* C18: sign_new and verify_new of an HMAC _GENERAL mechanism take a
\* parameter that is exactly one CK_ULONG t with 1 <= t <= L and nothing
\* else, those of a fixed HMAC mechanism take no parameter at all; any other
\* parameter gives CKR_MECHANISM_PARAM_INVALID and no operation.  The
\* operation's signature_len() is t, or L for the fixed mechanism, and what
\* sign writes is the first t octets of the full MAC.
C18_HmacGeneralLength ==
    /\ (hlast.call = "new" /\ ~HmParamAccepted)
           => hlast.rv = "CKR_MECHANISM_PARAM_INVALID" /\ hm = NoHmac
    /\ (hlast.call = "new" /\ HmParamAccepted)
           => hlast.rv # "CKR_MECHANISM_PARAM_INVALID"
    /\ (hlast.call = "new" /\ hlast.rv = "CKR_OK") => hm # NoHmac
    /\ hm # NoHmac => hm.outputlen = HmTagLen
    /\ HmSigned => hlast.out = Take(HmMAC, HmTagLen)

\* a _GENERAL mechanism with t < L has signed
C18_Witness ==
    /\ HmGeneral /\ hlast.genlen < MaxOutputLen
    /\ HmSigned

(***************************************************************************)
(* RSA verification and the key-size gate (SpecOp).                        *)
(***************************************************************************)
\* an RSA verify call that answered on the signature
RsaVerified ==
    /\ last.call \in {"verify", "verify_final"}
    /\ last.pre.impl = "RSA"
    /\ last.rv \in {"CKR_OK", "CKR_SIGNATURE_INVALID"}

\* C19: RSA verify answers CKR_OK for the signature that sign produces over
\* the same data under the matching key, and CKR_SIGNATURE_INVALID for a
\* signature that does not match: whenever it answers on the signature, the
\* answer is CKR_OK exactly when the signature is the right one.
C19_RsaVerifyChecksSignature ==
    RsaVerified => (last.rv = "CKR_OK" <=> last.inp.sigok)

\* a call of one of the four RsaPKCSOperation constructors
RsaNew ==
    /\ last.call \in {"encrypt_new", "decrypt_new", "sign_new", "verify_new"}
    /\ last.inp.modlen > 0
RsaBits == 8 * last.inp.modlen
RsaOutOfRange ==
    \/ RsaBits < last.inp.info.ulMinKeySize
    \/ (last.inp.info.ulMaxKeySize # 0 /\ RsaBits > last.inp.info.ulMaxKeySize)

\* C20: every RSA constructor fails with CKR_KEY_SIZE_RANGE exactly when
\* bits = 8 * |MODULUS| is below ulMinKeySize, or ulMaxKeySize is not 0 and
\* bits is above it; the gate comes first: out of range, that is the answer
\* whatever the mechanism is and whatever the provider would have done with
\* the key, and no operation is made.
C20_KeySizeGate ==
    RsaNew => /\ last.rv = "CKR_KEY_SIZE_RANGE" <=> RsaOutOfRange
              /\ RsaOutOfRange => op = NoOp

\* a modulus above a limit that is not 0, with a provider that would fail
C20_Witness ==
    /\ RsaNew /\ last.rv = "CKR_KEY_SIZE_RANGE"
    /\ last.inp.info.ulMaxKeySize # 0
    /\ RsaBits > last.inp.info.ulMaxKeySize
    /\ "setup" \in last.inp.pf

(***************************************************************************)
(* Properties of the EC-Montgomery factory and mechanism                   *)
(***************************************************************************)
\* what a template says: it has an entry of that id; it has an entry of the
\* id of a with another value than a's
TplHas(t, id) == \E i \in DOMAIN t : t[i].attr.type = id
TplDiffers(t, a) ==
    \E i \in DOMAIN t : t[i].attr.type = a.type /\ t[i].attr.value # a.value
TplUnique(t) ==
    \A i, j \in DOMAIN t : t[i].attr.type = t[j].attr.type => i = j
\* the object has the attribute a
ObjHas(o, a) ==
    \E i \in DOMAIN o.attributes :
        o.attributes[i].type = a.type /\ o.attributes[i].value = a.value

EcGenerated == ec.call = "generate_keypair"
\* a template of the call gives a forced attribute another value
EcForcedDiffers ==
    \/ TplDiffers(ec.pub_template, from_ulong("CKA_CLASS", CKO_PUBLIC_KEY))
    \/ TplDiffers(ec.pub_template, from_ulong("CKA_KEY_TYPE", CKK_EC_EDWARDS))
    \/ TplDiffers(ec.pri_template, from_ulong("CKA_CLASS", CKO_PRIVATE_KEY))
    \/ TplDiffers(ec.pri_template, from_ulong("CKA_KEY_TYPE", CKK_EC_EDWARDS))
    \/ \E i \in DOMAIN ec.pub_template :
          /\ ec.pub_template[i].attr.type = "CKA_EC_PARAMS"
          /\ TplDiffers(ec.pri_template, ec.pub_template[i].attr)

EcCreated == ec.call = "create"
\* the value of the first entry of that id
TplValue(t, id) ==
    t[First({i \in DOMAIN t : t[i].attr.type = id})].attr.value
\* the template passes the checks of the schema up to the two EC attributes
EcCreateComplete ==
    /\ TplUnique(ec.template)
    /\ TplHas(ec.template, "CKA_CLASS")
    /\ TplHas(ec.template, "CKA_KEY_TYPE")
    /\ TplHas(ec.template, "CKA_EC_PARAMS")
    /\ TplHas(ec.template, "CKA_EC_POINT")
\* CKA_EC_PARAMS is the DER of the X25519 or X448 OID and CKA_EC_POINT has
\* as many octets as a point of that curve
EcCurveAndPoint ==
    \/ /\ TplValue(ec.template, "CKA_EC_PARAMS") = <<6, 3, 43, 101, 110>>
       /\ Len(TplValue(ec.template, "CKA_EC_POINT")) = 32
    \/ /\ TplValue(ec.template, "CKA_EC_PARAMS") = <<6, 3, 43, 101, 111>>
       /\ Len(TplValue(ec.template, "CKA_EC_POINT")) = 56

MechConstructed == mechs.call = "construct"
MechRegistered == MechConstructed /\ mechs.typ \in DOMAIN mechs.tree
MechFlagSet == MechRegistered /\ CtorFlag(mechs.ctor) \in mechs.tree[mechs.typ].info.flags

\* C21: a constructor of a registered mechanism succeeds only when info()
\* has the flag of its capability; a constructor whose flag info() has is
\* implemented: it does not answer MechanismInvalid, and it succeeds on
\* arguments of the right kind; a constructor whose flag info() has not, and
\* every constructor of a type that is not registered, as well as
\* Mechanisms::get of it, answers MechanismInvalid.
C21_ConstructorsFollowFlags ==
    /\ MechConstructed =>
          /\ mechs.rv = "CKR_OK" => MechFlagSet
          /\ MechFlagSet => mechs.rv # "CKR_MECHANISM_INVALID"
          /\ ~MechFlagSet => mechs.rv = "CKR_MECHANISM_INVALID"
    /\ mechs.call = "get" =>
          (mechs.rv = "CKR_MECHANISM_INVALID" <=> mechs.typ \notin DOMAIN mechs.tree)
          /\ mechs.rv \in {"CKR_OK", "CKR_MECHANISM_INVALID"}

\* verify_new of a registered HMAC mechanism has succeeded, with both
\* registrations made
C21_Witness ==
    /\ MechFlagSet
    /\ mechs.ctor = "verify_new"
    /\ mechs.rv = "CKR_OK"
    /\ "CKM_EC_MONTGOMERY_KEY_PAIR_GEN" \in DOMAIN mechs.tree

(***************************************************************************)
(* Properties of the RSA key import                                        *)
(***************************************************************************)
\* every temporary buffer holds only zero octets
ImpZeroized ==
    \A v \in DOMAIN imp.vecs : \A k \in DOMAIN imp.vecs[v] : imp.vecs[v][k] = 0

\* C22: when object_to_rsa_public_key or object_to_rsa_private_key returns,
\* with a key or with an error, every temporary buffer it copied a key
\* component to holds only zero octets.
C22_ImportBuffersZeroized ==
    imp.call # "none" => ImpZeroized

(***************************************************************************)
(* Properties of the loading of a token                                    *)
(***************************************************************************)
JsonOpened == slast.call = "open" /\ file.exists /\ file.ok
TableNames == {AttrTable[k].name : k \in DOMAIN AttrTable}
VariantOf(key) == AttrTable[CHOOSE k \in DOMAIN AttrTable : AttrTable[k].name = key].atype
\* the value cannot be decoded into the variant declared for the name
Undecodable(key, val) ==
    /\ key \in TableNames
    /\ CASE VariantOf(key) = "BoolType" -> val.kind # "Bool"
         [] VariantOf(key) = "NumType" -> val.kind # "Number"
         [] VariantOf(key) = "StringType" -> val.kind # "String"
         [] VariantOf(key) = "BytesType" ->
               val.kind # "String" \/ ~BASE64_decode(val.s).ok
         [] VariantOf(key) = "DateType" ->
               val.kind # "String" \/ (Len(val.s) # 0 /\ ~(Len(val.s) = 8 /\ IsDigits(val.s)))
         [] OTHER -> FALSE
FileHasUndecodable ==
    \E i \in DOMAIN file.objects : \E key \in DOMAIN file.objects[i] :
        Undecodable(key, file.objects[i][key])
FileHasUnknownName ==
    \E i \in DOMAIN file.objects : \E key \in DOMAIN file.objects[i] :
        key \notin TableNames
FileLacksUniqueId ==
    \E i \in DOMAIN file.objects : "CKA_UNIQUE_ID" \notin DOMAIN file.objects[i]

\* C24: the loading of a token file in which a value cannot be decoded into
\* the variant declared for its name (and every name is known) fails with
\* AttributeValueInvalid.
C24_UndecodableIsValueInvalid ==
    (JsonOpened /\ FileHasUndecodable /\ ~FileHasUnknownName /\ ~FileLacksUniqueId)
        => slast.rv = "CKR_ATTRIBUTE_VALUE_INVALID"

JoWritten(i) ==
    \A j \in DOMAIN obj.attributes :
        obj.attributes[j].type = obj.attributes[i].type => j <= i

\* C26: JsonObject::from_object writes a Bool as a JSON boolean, a Num as a
\* number, a String as the string, Bytes as their base64, a Date as the
\* string YYYYMMDD or the empty string, and has no entry for an attribute of
\* the Ignore or Deny variant.
C26_FromObjectEncoding ==
    olast.call = "from_object" =>
        \A i \in DOMAIN obj.attributes :
            LET a == obj.attributes[i]
            IN  JoWritten(i) =>
                  CASE a.atype = "BoolType" ->
                          a.type \in DOMAIN olast.jo /\ olast.jo[a.type] = JBool(a.value[1] # 0)
                    [] a.atype = "NumType" ->
                          a.type \in DOMAIN olast.jo /\ olast.jo[a.type] = JNumber(a.value[1])
                    [] a.atype = "StringType" ->
                          a.type \in DOMAIN olast.jo /\ olast.jo[a.type] = JString(a.value)
                    [] a.atype = "BytesType" ->
                          /\ a.type \in DOMAIN olast.jo
                          /\ olast.jo[a.type].kind = "String"
                          /\ BASE64_decode(olast.jo[a.type].s) = [ok |-> TRUE, val |-> a.value]
                    [] a.atype = "DateType" ->
                          a.type \in DOMAIN olast.jo /\ olast.jo[a.type] = JString(a.value)
                    [] OTHER -> a.type \notin DOMAIN olast.jo

(***************************************************************************)
(* Properties of the lengths of RSA_PKCS                                   *)
(***************************************************************************)
\* a one-shot sign or verify on a Fresh RSA_PKCS operation, with data longer
\* than the modulus less the PKCS#1 overhead
RsaOneShotTooLong ==
    /\ last.call \in {"sign", "verify"}
    /\ last.pre.impl = "RSA"
    /\ last.pre.mech = "CKM_RSA_PKCS"
    /\ ~last.pre.in_use /\ ~last.pre.finalized
    /\ last.datalen > last.inp.modlen - PKCS1Overhead

\* C29: a one-shot RSA_PKCS sign or verify of data longer than |MODULUS| - 11
\* octets answers DataLenRange whatever the provider would do, and leaves
\* the operation finalized; encryption_len() and signature_len() are
\* |MODULUS| and decryption_len() is |MODULUS| - 11.
C29_RsaPkcsLengths ==
    /\ RsaOneShotTooLong => (last.rv = "CKR_DATA_LEN_RANGE" /\ op.finalized)
    /\ last.call \in {"encryption_len", "signature_len"} =>
          (last.rv = "CKR_OK" /\ last.len = last.inp.modlen)
    /\ last.call = "decryption_len" =>
          (last.rv = "CKR_OK" /\ last.len = last.inp.modlen - PKCS1Overhead)

\* a verify of too long data was refused although the provider would have
\* failed
C29_Witness ==
    /\ RsaOneShotTooLong
    /\ last.call = "verify"
    /\ "setup" \in last.inp.pf
    /\ last.rv = "CKR_DATA_LEN_RANGE"
    /\ op.finalized

(***************************************************************************)
(* Properties of the RNG and of the initialization of the library          *)
(***************************************************************************)
RngGenerated == rng.call = "generate_random"
\* the DRBG was fit to generate when generate_random was called
DrbgFit == rng.pre.initialized /\ rng.pre.reseed_counter <= ReseedInterval

LibFresh(l) == l.call = "none" \/ (l.call = "C_Finalize" /\ l.rv = "CKR_OK")
\* C_Initialize is given the initialization string, in its arguments or in
\* KRYOPTIC_CONF, and the entropy source works
LibInitGiven(l, l1) ==
    /\ l1.call = "C_Initialize"
    /\ l1.args = "explicit" \/ l.env
    /\ l1.seed = "ok"

\* C28: a C_Initialize that is given the initialization string in explicit
\* arguments, or in KRYOPTIC_CONF with empty or null arguments, answers
\* CKR_OK and leaves the library initialized, both as the first call and as
\* the call that follows a C_Finalize of an earlier initialization.
C28_InitializeSucceeds ==
    [][ (LibFresh(lib) /\ LibInitGiven(lib, lib'))
            => (lib'.rv = "CKR_OK" /\ lib'.initialized) ]_vars

\* the library was initialized, finalized and then initialized again with a
\* null pointer and KRYOPTIC_CONF
C28_Witness ==
    /\ lib.finalized
    /\ lib.call = "C_Initialize"
    /\ lib.args = "null"
    /\ lib.env
    /\ lib.rv = "CKR_OK"
    /\ lib.initialized

(***************************************************************************)
(* Properties of the hash-state wrappers                                   *)
(***************************************************************************)
\* p was freed n times
TimesFreed(p) == Cardinality({k \in DOMAIN hs.freed : hs.freed[k] = p})

\* C31: new holds a null state; get_state never returns null and returns
\* the state the call before it returned when that call was get_state too;
\* once the wrapper is dropped every native state made for it has been freed
\* exactly once, and no state is ever freed twice.
C31_HashStateLifecycle ==
    /\ hs.call = "new" => hs.s = Null
    /\ hs.call \in {"get_state", "get_state again"} => hs.ret # Null /\ hs.ret = hs.s
    /\ hs.call = "get_state again" => hs.ret = hs.before
    /\ \A p \in 1..hs.made : TimesFreed(p) <= 1
    /\ hs.call = "drop" => \A p \in 1..hs.made : TimesFreed(p) = 1 /\ p \notin hs.live

(***************************************************************************)
(* Properties of a dropped HMACOperation and of its two flags              *)
(***************************************************************************)
AllZero(v) == \A k \in DOMAIN v : v[k] = Plain(0)

\* C32: once an HMACOperation is dropped, after a success, after an error or
\* after an init that failed, its state, ipad and opad vectors hold zeroes
\* only, and so does the key vector that sign_new or verify_new cloned for
\* init.
C32_DroppedHmacLeavesNoKey ==
    hlast.call = "drop" =>
        /\ AllZero(hlast.left.state)
        /\ AllZero(hlast.left.ipad)
        /\ AllZero(hlast.left.opad)
        /\ AllZero(hlast.left.key)

\* C36: an HMACOperation that is finalized is in use.
C36_FinalizedImpliesInUse ==
    hm # NoHmac => (hm.finalized => hm.in_use)

\* a one-shot sign whose update failed: finalized, and in use
C36_Witness ==
    /\ hm # NoHmac
    /\ hlast.call = "sign"
    /\ hlast.rv = "CKR_DEVICE_ERROR"
    /\ hlast.data = <<>>
    /\ hm.finalized /\ hm.in_use

(***************************************************************************)
(* Properties of the UNIQUE_ID that create assigns                         *)
(***************************************************************************)
\* the places of CKA_UNIQUE_ID in a sequence of attributes
UidPlaces(attrs) == {k \in DOMAIN attrs : attrs[k].type = "CKA_UNIQUE_ID"}
TemplateHasUid == UidPlaces(TemplateAttrs(olast.arg)) # {}
\* the first loop of the checks gets as far as the CKA_UNIQUE_ID of the
\* template: the entries before it are ids of the schema, each once
CleanBeforeUid ==
    LET t == TemplateAttrs(olast.arg)
        u == First(UidPlaces(t))
    IN  /\ \A i \in 1..(u - 1) : t[i].type \in DataSchemaIds
        /\ \A i, j \in 1..(u - 1) : i # j => t[i].type # t[j].type
CreateReachesChecks ==
    /\ Decodes(olast.arg)
    /\ \E i \in DOMAIN olast.arg : olast.arg[i].attr.type = "CKA_CLASS"
    /\ LET t == TemplateAttrs(olast.arg)
       IN  t[First({i \in DOMAIN t : t[i].type = "CKA_CLASS"})] = from_ulong("CKA_CLASS", CKO_DATA)

C34_GeneratedKeyTypeIsRegistered ==
    (EcGenerated /\ ec.rv = "CKR_OK") =>
        /\ UlongOf(ec.pub, "CKA_KEY_TYPE") = ECMontgomery_register_factories.pub.key_type
        /\ UlongOf(ec.priv, "CKA_KEY_TYPE") = ECMontgomery_register_factories.priv.key_type
        /\ UlongOf(ec.pub, "CKA_KEY_TYPE") = UlongOf(ec.priv, "CKA_KEY_TYPE")

(***************************************************************************)
(* Properties of the calls on a JsonStorage that fail                      *)
(***************************************************************************)
\* C37: a store or a remove_by_uid that returns an error leaves the cache
\* and the token file as they were before the call.
C37_StoreAndRemoveAllOrNothing ==
    [][ (slast'.call \in {"store", "remove_by_uid"} /\ slast'.rv # "CKR_OK")
            => (cache' = cache /\ file' = file) ]_vars

\* C38: an open that returns an error leaves the filename of the storage
\* and its cache as they were before the call.
C38_FailedOpenChangesNothing ==
    [][ (slast'.call = "open" /\ slast'.rv # "CKR_OK")
            => (fname' = fname /\ cache' = cache) ]_vars

(***************************************************************************)
(* Properties of the shared object templates                               *)
(***************************************************************************)
\* C33: the closure that fills the shared data-object template runs at most
\* once, whichever way the threads interleave; the template is None before
\* and the schema with no attribute present ever after; no thread finds it
\* None; and what create returns to a thread is what create returns for its
\* template and UUID alone.
C33_TemplatesInitializedOnce ==
    /\ tpls.inits <= 1
    /\ tpls.template = IF tpls.once = "complete" THEN data_object_template ELSE <<>>
    /\ \A t \in Threads :
          /\ tpls.th[t].pc # "panic"
          /\ tpls.th[t].pc = "check" => tpls.th[t].cattrs = data_object_template
          /\ tpls.th[t].pc = "done" =>
                LET r == create(1, tpls.th[t].template, tpls.th[t].uuid)
                IN  tpls.th[t].rv = r.rv /\ tpls.th[t].obj = r.obj

\* two threads were in create at once: one got its object, the other one
\* the refusal of its own template
C33_Witness ==
    /\ tpls.inits = 1
    /\ tpls.th[1].pc = "done" /\ tpls.th[1].rv = "CKR_OK"
    /\ tpls.th[2].pc = "done" /\ tpls.th[2].rv = "CKR_TEMPLATE_INCONSISTENT"

====
